---------------------------- MODULE Spec2Model ----------------------------
(***************************************************************************)
(* State-machine model of the gpt-cli chat component (Chat.tsx): the       *)
(* session store on disk, the conversation engine (handleSubmit and its    *)
(* asynchronous continuation), the overlay flags driven by the two input   *)
(* handlers (ink-text-input's and Chat's useInput), and the auto-save /    *)
(* cleanup chain.                                                          *)
(*                                                                         *)
(* Text is modelled as a sequence of one-character strings, so that        *)
(* startsWith, lastIndexOf, trim and slice are computed as the code        *)
(* computes them.  A file path and a provider delta are single tokens.     *)
(***************************************************************************)
EXTENDS Integers, Sequences, FiniteSets, TLC

(***************************************************************************)
(* Bounds of the model.  MAX_HISTORY_SESSIONS is 50 and LIST_LIMIT is 10   *)
(* in the source (Chat.tsx:69, Chat.tsx:216); they are scaled down here so *)
(* that a store can exceed them within the other bounds.                   *)
(***************************************************************************)
MAX_HISTORY_SESSIONS == 2
LIST_LIMIT == 2
MaxStamp == 3

Undef == "undef"

(* ----------------------------- text helpers ---------------------------- *)

\* String.prototype.startsWith
StartsWith(s, p) ==
  /\ Len(p) <= Len(s)
  /\ SubSeq(s, 1, Len(p)) = p

Min(S) == CHOOSE x \in S : \A y \in S : x <= y
Max(S) == CHOOSE x \in S : \A y \in S : x >= y

(* ------------------------------ JSON ----------------------------------- *)
(* A document is what writeFile puts on disk: the property list that       *)
(* JSON.stringify produces (undefined properties are left out), or bytes   *)
(* that JSON.parse rejects.                                                *)

Corrupt == [ok |-> FALSE, pairs |-> <<>>]

Get(pairs, key, default) ==
  LET idx == {i \in 1..Len(pairs) : pairs[i][1] = key}
  IN IF idx = {} THEN default ELSE pairs[Min(idx)][2]

\* JSON.stringify of one Message: role, content, and the optional
\* isStreaming / model when they are defined.
StringifyMessage(m) ==
  << <<"role", m.role>>, <<"content", m.content>> >>
    \o (IF m.isStreaming = Undef THEN <<>> ELSE << <<"isStreaming", m.isStreaming>> >>)
    \o (IF m.model = Undef THEN <<>> ELSE << <<"model", m.model>> >>)

ParseMessage(pairs) ==
  [role |-> Get(pairs, "role", Undef),
   content |-> Get(pairs, "content", <<>>),
   isStreaming |-> Get(pairs, "isStreaming", Undef),
   model |-> Get(pairs, "model", Undef)]

\* JSON.stringify(session, null, 2)
Stringify(s) ==
  [ok |-> TRUE,
   pairs |-> << <<"id", s.id>>, <<"title", s.title>>,
                <<"createdAt", s.createdAt>>, <<"updatedAt", s.updatedAt>>,
                <<"messages", [i \in 1..Len(s.messages) |-> StringifyMessage(s.messages[i])]>> >>
             \o (IF s.model = Undef THEN <<>> ELSE << <<"model", s.model>> >>)]

\* JSON.parse(data) as Session, for a document that parses
Parse(doc) ==
  LET ms == Get(doc.pairs, "messages", <<>>)
  IN [id |-> Get(doc.pairs, "id", <<>>),
      title |-> Get(doc.pairs, "title", <<>>),
      createdAt |-> Get(doc.pairs, "createdAt", 0),
      updatedAt |-> Get(doc.pairs, "updatedAt", 0),
      messages |-> [i \in 1..Len(ms) |-> ParseMessage(ms[i])],
      model |-> Get(doc.pairs, "model", Undef)]

(* --------------------------- session store ----------------------------- *)
(* A store maps a session id (the file HISTORY_DIR/<id>.json) to <<>> (no  *)
(* file) or <<doc>>.  Ids are plain alphanumeric text, as generateSessionId*)
(* mints them, so that join() adds no path normalisation.                  *)

FilesOf(st) == {f \in DOMAIN st : st[f] # <<>>}

\* loadSession: <<session>> or <<>> (null) when the file is missing or does
\* not parse
loadSession(st, sessionId) ==
  IF sessionId \in DOMAIN st /\ st[sessionId] # <<>> /\ st[sessionId][1].ok
    THEN <<Parse(st[sessionId][1])>>
    ELSE <<>>

\* saveSession writing every session to one fixed file
saveSessionOneFile(st, session) ==
  [f \in DOMAIN st |-> IF f = <<"a">> THEN <<Stringify(session)>> ELSE st[f]]

\* the writeFile of saveSession, when it succeeds
saveSession(st, session) ==
  [f \in DOMAIN st \cup {session.id} |->
     IF f = session.id THEN <<Stringify(session)>> ELSE st[f]]

\* the read loop shared by listSessions and cleanupOldSessions: the files
\* in readdir order, those that do not parse skipped
RECURSIVE ReadAll(_, _)
ReadAll(st, files) ==
  IF files = <<>> THEN <<>>
  ELSE LET got == loadSession(st, Head(files))
       IN (IF got = <<>> THEN <<>> ELSE <<[file |-> Head(files), session |-> got[1]]>>)
            \o ReadAll(st, Tail(files))

\* Array.prototype.sort with comparator (a, b) => key(a) - key(b): stable.
\* Insert x after every element whose key is <= its own.
RECURSIVE InsertAsc(_, _)
InsertAsc(sorted, x) ==
  IF sorted = <<>> THEN <<x>>
  ELSE IF Head(sorted).session.updatedAt <= x.session.updatedAt
         THEN <<Head(sorted)>> \o InsertAsc(Tail(sorted), x)
         ELSE <<x>> \o sorted

RECURSIVE SortAsc(_)
SortAsc(xs) ==
  IF xs = <<>> THEN <<>>
  ELSE InsertAsc(SortAsc(SubSeq(xs, 1, Len(xs) - 1)), xs[Len(xs)])

RECURSIVE InsertDesc(_, _)
InsertDesc(sorted, x) ==
  IF sorted = <<>> THEN <<x>>
  ELSE IF Head(sorted).session.updatedAt >= x.session.updatedAt
         THEN <<Head(sorted)>> \o InsertDesc(Tail(sorted), x)
         ELSE <<x>> \o sorted

RECURSIVE SortDesc(_)
SortDesc(xs) ==
  IF xs = <<>> THEN <<>>
  ELSE InsertDesc(SortDesc(SubSeq(xs, 1, Len(xs) - 1)), xs[Len(xs)])

\* listSessions with the comparator's operands swapped
listSessionsOldestFirst(st, files) ==
  LET all == SortAsc(ReadAll(st, files))
      n == IF Len(all) < LIST_LIMIT THEN Len(all) ELSE LIST_LIMIT
  IN [i \in 1..n |-> all[i].session]

\* listSessions: sort by updatedAt desc, slice(0, 10)
listSessions(st, files) ==
  LET all == SortDesc(ReadAll(st, files))
      n == IF Len(all) < LIST_LIMIT THEN Len(all) ELSE LIST_LIMIT
  IN [i \in 1..n |-> all[i].session]

\* cleanupOldSessions deleting the newest instead of the oldest
cleanupCandidatesNewest(st, files) ==
  LET all == ReadAll(st, files)
  IN IF Len(all) > MAX_HISTORY_SESSIONS
       THEN LET desc == SortDesc(all)
            IN [i \in 1..(Len(all) - MAX_HISTORY_SESSIONS) |-> desc[i].file]
       ELSE <<>>

\* cleanupOldSessions, up to the unlink loop: the files to delete
cleanupCandidates(st, files) ==
  LET all == ReadAll(st, files)
  IN IF Len(all) > MAX_HISTORY_SESSIONS
       THEN LET asc == SortAsc(all)
            IN [i \in 1..(Len(all) - MAX_HISTORY_SESSIONS) |-> asc[i].file]
       ELSE <<>>

\* unlink, when it succeeds
unlink(st, file) == [f \in DOMAIN st |-> IF f = file THEN <<>> ELSE st[f]]

\* resumeSession's lookup without the exact-id fallback
resolveSessionPrefixOnly(st, files, target) ==
  LET sessions == listSessions(st, files)
      hits == {i \in 1..Len(sessions) : StartsWith(sessions[i].id, target)}
  IN IF hits # {} THEN <<sessions[Min(hits)]>> ELSE <<>>

\* resumeSession's lookup:
\*   sessions.find(s => s.id.startsWith(target)) || await loadSession(target)
resolveSession(st, files, target) ==
  LET sessions == listSessions(st, files)
      hits == {i \in 1..Len(sessions) : StartsWith(sessions[i].id, target)}
  IN IF hits # {} THEN <<sessions[Min(hits)]>> ELSE loadSession(st, target)


(* ------------------------- program constants --------------------------- *)

C_clear    == <<"/","c","l","e","a","r">>
C_exit     == <<"/","e","x","i","t">>
C_quit     == <<"/","q","u","i","t">>
C_model    == <<"/","m","o","d","e","l">>
C_models   == <<"/","m","o","d","e","l","s">>
C_help     == <<"/","h","e","l","p">>
C_sessions == <<"/","s","e","s","s","i","o","n","s">>
C_resume   == <<"/","r","e","s","u","m","e">>
C_new      == <<"/","n","e","w">>

\* COMMANDS, by name
COMMANDS ==
  <<C_clear, C_exit, C_quit, C_model, C_models, C_help, C_sessions, C_resume, C_new>>

\* AVAILABLE_MODELS: three of the nine entries of the source list, the
\* default 'gpt-4o-mini' among them
AVAILABLE_MODELS == <<"gpt-4o", "gpt-4o-mini", "gpt-3.5-turbo">>
DefaultModel == "gpt-4o-mini"

\* the entries of process.cwd() that readdir returns, and join(dir, f) as
\* one token
CwdFiles == << <<"m">>, <<"s">> >>
PathOf(f) == IF f = <<"m">> THEN "~m" ELSE "~s"

Space == " "
Newline == "\n"
IsBlank(c) == c \in {Space, Newline}
\* \w of the regular expression in the file-autocomplete effect
IsWordChar(c) == c \in {"m", "s", "y", "n", "a", "b", "c"}

\* String.prototype.trim
RECURSIVE TrimLeft(_)
TrimLeft(s) == IF s # <<>> /\ IsBlank(Head(s)) THEN TrimLeft(Tail(s)) ELSE s
RECURSIVE TrimRight(_)
TrimRight(s) ==
  IF s # <<>> /\ IsBlank(s[Len(s)]) THEN TrimRight(SubSeq(s, 1, Len(s) - 1)) ELSE s
Trim(s) == TrimRight(TrimLeft(s))

\* String.prototype.lastIndexOf, 1-based, 0 when absent
LastIndexOf(s, c) ==
  LET idx == {i \in 1..Len(s) : s[i] = c} IN IF idx = {} THEN 0 ELSE Max(idx)

\* Array.prototype.indexOf on AVAILABLE_MODELS, 0-based, -1 when absent
IndexOfModel(m) ==
  LET idx == {i \in 1..Len(AVAILABLE_MODELS) : AVAILABLE_MODELS[i] = m}
  IN IF idx = {} THEN -1 ELSE Min(idx) - 1

IsModel(m) == \E i \in 1..Len(AVAILABLE_MODELS) : AVAILABLE_MODELS[i] = m

(* ------------------------------ messages ------------------------------- *)

Msg(role, content, isStreaming, model) ==
  [role |-> role, content |-> content, isStreaming |-> isStreaming, model |-> model]
UserMsg(content) == Msg("user", content, Undef, Undef)
\* an assistant-authored announcement: a tag and its argument
Note(tag, arg) == Msg("assistant", <<tag>> \o arg, Undef, Undef)


(* ------------------------------- state --------------------------------- *)

VARIABLES
  ui,                \* the useState cells of Chat, as of the last render
  titleGenerated,    \* titleGeneratedRef.current
  sessionCreatedAt,  \* sessionCreatedAtRef.current
  store,             \* HISTORY_DIR: session id -> <<>> or <<document>>
  config,            \* CONFIG_FILE as loadConfig returns it
  now,               \* the last value Date.now() returned
  minted,            \* how many ids generateSessionId has returned
  calls,             \* handleSubmit invocations suspended at an await
  cmds,              \* handleSubmit invocations awaiting showSessions / resumeSession
  scans,             \* scanFiles promises not yet resolved (their queries)
  saves,             \* saveCurrentSession / store operations in progress
  exited,            \* exit() was called
  focusProp,         \* TRUE: the compiled build (TextInput carries the focus prop)
  keys,              \* how many keys the user has pressed
  disk,              \* how the file system treats writes: "healthy", "flaky" or "slow"
  last               \* the last completed store operation (history)

vars == <<ui, titleGenerated, sessionCreatedAt, store, config, now, minted,
          calls, cmds, scans, saves, exited, focusProp, keys, disk, last>>

MaxSaves == 9      \* auto-saves started in one run
MaxMint == 2       \* session ids minted
MaxPending == 2    \* save chains in progress at once
MaxScans == 1      \* directory scans in progress at once
MaxCalls == 2      \* handleSubmit invocations suspended at once
MaxInput == 2      \* characters typed into the input at once
MaxDeltas == 1     \* deltas of one completion stream
MaxMessages == 3   \* length of the message list
MaxKeys == 4       \* keys pressed in one run

Ui0 ==
  [messages |-> <<>>, input |-> <<>>, isLoading |-> FALSE, isThinking |-> FALSE,
   streamingContent |-> <<>>, currentModel |-> DefaultModel, sessionId |-> <<>>,
   sessionTitle |-> <<>>, isInitialized |-> FALSE, pendingSession |-> <<>>,
   showCommands |-> FALSE, selectedCommandIndex |-> 0, filteredCommands |-> <<>>,
   showModelSelector |-> FALSE, selectedModelIndex |-> 0,
   showFileSelector |-> FALSE, fileList |-> <<>>, selectedFileIndex |-> 0,
   attachedFiles |-> <<>>, scrollOffset |-> 0, rows |-> 0, columns |-> 0]

\* the record of a completed store operation
Last(op, session, target, listed, result, before, after, ok) ==
  [op |-> op, session |-> session, target |-> target, listed |-> listed,
   result |-> result, before |-> before, after |-> after, ok |-> ok]
NoLast == Last("none", <<>>, <<>>, <<>>, <<>>, <<>>, <<>>, TRUE)

\* generateSessionId: a value no earlier call returned
generateSessionId(k) == <<ToString(k + 1)>>

\* the session ids on disk before the run, and those the run can mint
Ids == << <<"a">>, <<"b">>, <<"a", "b">>, <<"c">>, <<"b", "c">> >>
IdSeq == Ids \o [k \in 1..(MaxMint + 1) |-> generateSessionId(k - 1)]
AllIds == {IdSeq[i] : i \in 1..Len(IdSeq)}

\* readdir(HISTORY_DIR): the files present, in one of the two orders the
\* model lets the file system return (one the reverse of the other)
Reverse(s) == [i \in 1..Len(s) |-> s[Len(s) + 1 - i]]
Readdir(S) ==
  LET forward == SelectSeq(IdSeq, LAMBDA f : f \in S)
  IN {forward, Reverse(forward)}

(* ---------------------------- virtual scroll -------------------------- *)
(* ui.rows and ui.columns are stdout.rows and stdout.columns as the last   *)
(* render read them, 0 standing for undefined.  MIN_VISIBLE_MESSAGES is 3  *)
(* in the source; it is scaled down so that a list within MaxMessages can  *)
(* be longer than the window.                                              *)

MIN_VISIBLE_MESSAGES == 1
DEFAULT_TERMINAL_ROWS == 24
TERMINAL_COLS_FALLBACK == 80
RESERVED_CHROME_ROWS == 8
ROWS_PER_MESSAGE_OVERHEAD == 3
ROWS_PER_MESSAGE_AVERAGE == 4

Least(a, b) == IF a <= b THEN a ELSE b
Greatest(a, b) == IF a >= b THEN a ELSE b

terminalRows(s) == IF s.rows = 0 THEN DEFAULT_TERMINAL_ROWS ELSE s.rows
terminalCols(s) == IF s.columns = 0 THEN TERMINAL_COLS_FALLBACK ELSE s.columns

\* Math.ceil(a / b) for a >= 0, b > 0
CeilDiv(a, b) == (a + b - 1) \div b

\* content.split('\n') and the rows its lines take: an empty line one row,
\* another Math.ceil(line.length / usableCols)
RECURSIVE LineRows(_, _, _)
LineRows(content, run, usableCols) ==
  IF content = <<>> THEN (IF run = 0 THEN 1 ELSE CeilDiv(run, usableCols))
  ELSE IF Head(content) = Newline
    THEN (IF run = 0 THEN 1 ELSE CeilDiv(run, usableCols))
           + LineRows(Tail(content), 0, usableCols)
  ELSE LineRows(Tail(content), run + 1, usableCols)

\* estimateMessageRows(message, terminalCols)
estimateMessageRows(message, cols) ==
  ROWS_PER_MESSAGE_OVERHEAD + LineRows(message.content, 0, Greatest(1, cols - 2))

\* the loop of computeMaxVisible, from index i (1-based) downwards
RECURSIVE CountVisible(_, _, _, _)
CountVisible(s, i, usedRows, count) ==
  IF i < 1 THEN count
  ELSE LET rowsNeeded == estimateMessageRows(s.messages[i], terminalCols(s))
       IN IF usedRows + rowsNeeded > terminalRows(s) - RESERVED_CHROME_ROWS
             /\ count >= MIN_VISIBLE_MESSAGES
            THEN count
            ELSE CountVisible(s, i - 1, usedRows + rowsNeeded, count + 1)

\* computeMaxVisible (the compiled build)
computeMaxVisible(s) ==
  IF Len(s.messages) = 0 THEN MIN_VISIBLE_MESSAGES
  ELSE Greatest(MIN_VISIBLE_MESSAGES,
                CountVisible(s, Greatest(0, Len(s.messages) - s.scrollOffset), 0, 0))

\* maxVisibleMessages of render s in build compiled (TRUE: the compiled
\* build, which measures the messages; FALSE: Chat.tsx, which divides the
\* rows left by an average height)
maxVisibleMessages(s, compiled) ==
  IF compiled THEN computeMaxVisible(s)
  ELSE Greatest(MIN_VISIBLE_MESSAGES,
                (terminalRows(s) - RESERVED_CHROME_ROWS) \div ROWS_PER_MESSAGE_AVERAGE)

\* the window of render s
startIndex(s, compiled) ==
  Greatest(0, Len(s.messages) - maxVisibleMessages(s, compiled) - s.scrollOffset)
endIndex(s) == Greatest(0, Len(s.messages) - s.scrollOffset)

\* the scroll effects without the reset
ScrollEffectsKeepOffset(s, prev, compiled) ==
  LET resized == s.rows # prev.rows \/ s.columns # prev.columns
  IN [s EXCEPT !.scrollOffset =
                  IF compiled /\ resized
                    THEN Least(@, Greatest(0, Len(s.messages) - MIN_VISIBLE_MESSAGES))
                    ELSE @]

\* the two scroll effects of the render of s, the previous render being
\* prev: the reset when the number of messages changed, then (compiled
\* build) the clamp when that or the size of the terminal changed
ScrollEffects(s, prev, compiled) ==
  LET lengthChanged == Len(s.messages) # Len(prev.messages)
      resized == s.rows # prev.rows \/ s.columns # prev.columns
      reset == IF lengthChanged THEN 0 ELSE s.scrollOffset
      clamped == IF compiled /\ (lengthChanged \/ resized)
                   THEN Least(reset, Greatest(0, Len(s.messages) - MIN_VISIBLE_MESSAGES))
                   ELSE reset
  IN [s EXCEPT !.scrollOffset = clamped]

(* ---------------------------- render effects --------------------------- *)

FilterCommands(in) == SelectSeq(COMMANDS, LAMBDA c : StartsWith(c, in))

\* the "Filter commands when input starts with /" effect, run on render s
CommandEffect(s) ==
  IF s.input # <<>> /\ Head(s.input) = "/"
    THEN LET filtered == FilterCommands(s.input)
         IN [s EXCEPT !.filteredCommands = filtered,
                      !.showCommands = (Len(filtered) > 0 /\ Len(s.input) > 0
                                        /\ ~s.showModelSelector /\ ~s.showFileSelector),
                      !.selectedCommandIndex = 0]
    ELSE [s EXCEPT !.showCommands = FALSE]

AfterAt(in) == SubSeq(in, LastIndexOf(in, "@") + 1, Len(in))

\* the condition under which the file-autocomplete effect calls scanFiles
FileTrigger(in) ==
  LET at == LastIndexOf(in, "@")
  IN /\ at # 0
     /\ \A i \in 1..Len(AfterAt(in)) : AfterAt(in)[i] # Space
     /\ (at > 1 => ~IsWordChar(in[at - 1]))

\* scanFiles(query): the entries of the directory whose name starts with
\* the prefix, joined to the directory, the first 10.  A query with a
\* directory part other than '' names a directory that does not exist.
scanFiles(query) ==
  LET slash == LastIndexOf(query, "/")
      prefix == SubSeq(query, slash + 1, Len(query))
      hit == SelectSeq(CwdFiles, LAMBDA f : StartsWith(f, prefix))
  IN IF slash > 1 THEN <<>> ELSE [i \in 1..Len(hit) |-> PathOf(hit[i])]

\* the state after the effects of the render of h have run, the previous
\* render being ui: the scroll effects, the two overlay effects, and the
\* command effect again when the file effect changed showFileSelector
Rendered(h) ==
  LET inputChanged == h.input # ui.input
      cmdDeps == \/ inputChanged
                 \/ h.showModelSelector # ui.showModelSelector
                 \/ h.showFileSelector # ui.showFileSelector
      a == IF cmdDeps THEN CommandEffect(h) ELSE h
      b == IF inputChanged /\ ~FileTrigger(h.input)
             THEN [a EXCEPT !.showFileSelector = FALSE] ELSE a
      c == IF b.showFileSelector # h.showFileSelector THEN CommandEffect(b) ELSE b
  IN ScrollEffects(c, ui, focusProp)

\* the session the auto-save effect builds from render h
Snapshot(h, cref, stamp) ==
  [id |-> h.sessionId,
   title |-> IF h.sessionTitle = <<>> THEN <<"Untitled">> ELSE h.sessionTitle,
   createdAt |-> IF cref # 0 THEN cref ELSE stamp,
   updatedAt |-> stamp,
   messages |-> h.messages,
   model |-> h.currentModel]

\* a cleanupOldSessions call about to read the directory
CleanupChain(kind) ==
  [kind |-> kind, pc |-> "scan", todo |-> <<>>, scanned |-> <<>>, failed |-> FALSE,
   session |-> <<>>, config |-> <<>>]

\* saveCurrentSession with the writeFile of saveSession outstanding
WriteChain(session) ==
  [CleanupChain("auto") EXCEPT !.pc = "write", !.session = <<session>>]

\* updateConfig about to read the file: what its closure will store
ConfigChain(c) ==
  [CleanupChain("config") EXCEPT !.pc = "load", !.config = <<c>>]

\* what a handler leaves behind: the state it set (h), whether it called
\* setMessages (touched), and the other things it changed
Base ==
  [h |-> ui, touched |-> FALSE, calls |-> calls, cmds |-> cmds, scans |-> scans,
   saves |-> saves, tg |-> titleGenerated, cref |-> sessionCreatedAt,
   minted |-> minted, exited |-> exited, store |-> store, keys |-> keys]

\* whether a write or a deletion succeeds: either way on a flaky disk,
\* always otherwise
Outcomes == IF disk = "flaky" THEN BOOLEAN ELSE {TRUE}

\* the render that follows a handler, with its effects: the overlay
\* effects, the directory scan, the config update and the auto-save the
\* render starts.  Unless the disk is slow, the writeFile of saveSession
\* and the whole of updateConfig settle before the next event is handled
\* (or fail, and the error is swallowed); on a slow disk they stay
\* outstanding and settle in steps of their own, in any order.  The
\* cleanupOldSessions call that follows a save always runs in steps of its
\* own.
Commit(r) ==
  LET h == r.h
      spawnScan == h.input # ui.input /\ FileTrigger(h.input)
      saveDeps == \/ r.touched
                  \/ h.sessionId # ui.sessionId
                  \/ h.sessionTitle # ui.sessionTitle
                  \/ h.currentModel # ui.currentModel
                  \/ h.isInitialized # ui.isInitialized
      spawnSave == /\ saveDeps /\ h.isInitialized /\ h.messages # <<>> /\ h.sessionId # <<>>
                   /\ ~r.exited
      cfgDeps == \/ h.currentModel # ui.currentModel
                 \/ h.sessionId # ui.sessionId
                 \/ h.isInitialized # ui.isInitialized
      spawnCfg == cfgDeps /\ h.isInitialized /\ ~r.exited
      newConfig == [currentModel |-> h.currentModel, lastSessionId |-> h.sessionId]
      session == Snapshot(h, r.cref, now + 1)
      started ==
        (IF spawnCfg /\ disk = "slow" THEN <<ConfigChain(newConfig)>> ELSE <<>>)
          \o (IF spawnSave
                THEN <<IF disk = "slow" THEN WriteChain(session) ELSE CleanupChain("auto")>>
                ELSE <<>>)
  IN /\ Len(h.messages) <= MaxMessages
     /\ r.minted <= MaxMint
     /\ Len(r.calls) <= MaxCalls
     /\ ui' = Rendered(h)
     /\ IF spawnScan
          THEN /\ Len(r.scans) < MaxScans
               /\ scans' = Append(r.scans, AfterAt(h.input))
          ELSE scans' = r.scans
     /\ started # <<>> => Len(r.saves) + Len(started) <= MaxPending
     /\ saves' = r.saves \o started
     /\ IF spawnSave
          THEN /\ now < MAX_HISTORY_SESSIONS + MaxSaves
               /\ \E ok \in Outcomes :
                    store' = IF ok /\ disk # "slow" THEN saveSession(r.store, session)
                             ELSE r.store
               /\ now' = now + 1
          ELSE /\ store' = r.store
               /\ now' = now
     /\ \E ok \in Outcomes :
          config' = IF spawnCfg /\ ok /\ disk # "slow" THEN newConfig ELSE config
     /\ titleGenerated' = r.tg
     /\ sessionCreatedAt' = r.cref
     /\ minted' = r.minted
     /\ calls' = r.calls
     /\ cmds' = r.cmds
     /\ exited' = r.exited
     /\ keys' = r.keys
     /\ UNCHANGED <<focusProp, disk, last>>


(* ------------------------------ handlers ------------------------------- *)

Alive == ui.isInitialized /\ ~exited

\* whether ink-text-input handles keys: always in Chat.tsx, only while no
\* picker is open where the focus prop is passed
Focused(s) ==
  ~focusProp \/ (~s.showCommands /\ ~s.showModelSelector /\ ~s.showFileSelector)

OverlayActive(s) ==
  s.showCommands \/ s.showModelSelector \/ s.showFileSelector \/ s.pendingSession # <<>>

\* handleSubmit, up to the branch it takes
SubmitKind(s, value) ==
  LET t == Trim(value)
  IN IF s.isLoading \/ s.isThinking THEN "busy"
     ELSE IF s.showCommands \/ s.showModelSelector \/ s.showFileSelector THEN "overlay"
     ELSE IF t = <<>> THEN "empty"
     ELSE IF t = C_clear THEN "clear"
     ELSE IF t = C_exit \/ t = C_quit THEN "exit"
     ELSE IF t = C_help THEN "help"
     ELSE IF t = C_models THEN "models"
     ELSE IF StartsWith(t, C_model \o <<Space>>) THEN "modelswitch"
     ELSE IF t = C_model THEN "models"
     ELSE IF t = C_sessions THEN "sessions"
     ELSE IF StartsWith(t, C_resume \o <<Space>>) THEN "resume"
     ELSE IF t = C_new THEN "new"
     ELSE "message"

\* showModels
showModels(s) ==
  [s EXCEPT !.showModelSelector = TRUE,
            !.selectedModelIndex =
               IF IndexOfModel(s.currentModel) >= 0 THEN IndexOfModel(s.currentModel) ELSE 0]

\* handleModelSwitch accepting any name
handleModelSwitchAnyName(r, name) ==
  [r EXCEPT !.h.currentModel = name[1],
            !.h.messages = Append(@, Note("switched", name)),
            !.touched = TRUE]

\* handleModelSwitch(modelName), modelName one token
handleModelSwitch(r, name) ==
  IF Len(name) = 1 /\ IsModel(name[1])
    THEN [r EXCEPT !.h.currentModel = name[1],
                   !.h.messages = Append(@, Note("switched", name)),
                   !.touched = TRUE]
    ELSE [r EXCEPT !.h.messages = Append(@, Note("unknown-model", name)),
                   !.touched = TRUE]

\* handleModelSelect(modelIndex)
handleModelSelect(r, modelIndex) ==
  LET known == modelIndex + 1 \in 1..Len(AVAILABLE_MODELS)
      a == IF known
             THEN [r EXCEPT !.h.currentModel = AVAILABLE_MODELS[modelIndex + 1],
                            !.h.messages =
                               Append(@, Note("switched", <<AVAILABLE_MODELS[modelIndex + 1]>>)),
                            !.touched = TRUE]
             ELSE r
  IN [a EXCEPT !.h.showModelSelector = FALSE, !.h.input = <<>>]

\* handleCommandSelect(cmd); currentModel is the one of the render s
handleCommandSelect(r, s, cmd) ==
  IF cmd = C_models \/ cmd = C_model
    THEN [r EXCEPT !.h.showModelSelector = TRUE,
                   !.h.showCommands = FALSE,
                   !.h.selectedModelIndex =
                      IF IndexOfModel(s.currentModel) >= 0
                        THEN IndexOfModel(s.currentModel) ELSE 0,
                   !.h.input = <<>>]
    ELSE [r EXCEPT !.h.input = cmd \o <<Space>>, !.h.showCommands = FALSE]

\* startNewSession
startNewSession(r) ==
  [r EXCEPT !.h.messages = <<Note("new-session", <<>>)>>,
            !.touched = TRUE,
            !.h.sessionId = generateSessionId(r.minted),
            !.minted = @ + 1,
            !.h.sessionTitle = <<>>,
            !.tg = FALSE,
            !.cref = now + 1]

\* handleResumePrompt resuming whatever the answer
handleResumePromptAlwaysAccept(r, s, accept) ==
  LET p == s.pendingSession
      a == IF p # <<>>
             THEN [r EXCEPT !.h.messages =
                               Append(p[1].messages, Note("resumed", p[1].title)),
                            !.touched = TRUE,
                            !.h.currentModel = p[1].model,
                            !.h.sessionId = p[1].id,
                            !.h.sessionTitle = p[1].title,
                            !.tg = TRUE]
             ELSE r
  IN [a EXCEPT !.h.pendingSession = <<>>]

\* handleResumePrompt(accept), pendingSession being the one of render s
handleResumePrompt(r, s, accept) ==
  LET p == s.pendingSession
      a == IF accept /\ p # <<>>
             THEN [r EXCEPT !.h.messages =
                               Append(p[1].messages, Note("resumed", p[1].title)),
                            !.touched = TRUE,
                            !.h.currentModel = p[1].model,
                            !.h.sessionId = p[1].id,
                            !.h.sessionTitle = p[1].title,
                            !.tg = TRUE]
             ELSE [r EXCEPT !.h.sessionId = generateSessionId(r.minted),
                            !.minted = @ + 1]
  IN [a EXCEPT !.h.pendingSession = <<>>]

\* one suspended handleSubmit: what its closure holds (messages,
\* currentModel, attachedFiles of the render it was called on), where it
\* is suspended, and fullContent; `session` records the session that was
\* active when it posted its user message
Call(pc, s, value) ==
  [pc |-> pc, value |-> value, content |-> Trim(value), msgs |-> s.messages,
   model |-> s.currentModel, files |-> s.attachedFiles, full |-> <<>>,
   session |-> s.sessionId]

\* handleSubmit from "const userMessage" to the await it stops at: the
\* title request on the first user message, else the completion request
PostUserMessage(r, c) ==
  LET wantTitle == ~r.tg /\ c.msgs = <<>>
  IN [r EXCEPT !.h.messages = Append(@, UserMsg(c.content)),
               !.touched = TRUE,
               !.h.input = <<>>,
               !.h.attachedFiles = <<>>,
               !.h.isLoading = TRUE,
               !.h.isThinking = TRUE,
               !.h.streamingContent = <<>>,
               !.tg = IF wantTitle THEN TRUE ELSE @,
               !.calls = Append(@, [c EXCEPT !.pc = IF wantTitle THEN "title" ELSE "request",
                                             !.session = r.h.sessionId])]

\* handleSubmit without the test for '/help'
handleSubmitHelpAsText(r, s, value) ==
  LET kind == SubmitKind(s, value)
      t == Trim(value)
  IN CASE kind \in {"busy", "overlay", "empty"} -> r
       [] kind = "clear" ->
            [r EXCEPT !.h.messages = <<>>, !.touched = TRUE, !.h.input = <<>>]
       [] kind = "exit" -> [r EXCEPT !.exited = TRUE]
       [] kind = "help" -> PostUserMessage(r, Call("request", s, value))
       [] kind = "models" ->
            [r EXCEPT !.h = [showModels(s) EXCEPT !.input = <<>>]]
       [] kind = "modelswitch" ->
            [handleModelSwitch(r, Trim(SubSeq(t, 8, Len(t)))) EXCEPT !.h.input = <<>>]
       [] kind = "sessions" ->
            [r EXCEPT !.cmds = Append(@, [pc |-> "sessions", target |-> <<>>])]
       [] kind = "resume" ->
            [r EXCEPT !.cmds = Append(@, [pc |-> "resume",
                                         target |-> Trim(SubSeq(t, 9, Len(t)))])]
       [] kind = "new" ->
            [startNewSession(r) EXCEPT !.h.input = <<>>]
       [] OTHER ->
            IF s.attachedFiles # <<>>
              THEN [r EXCEPT !.calls = Append(@, Call("read", s, value))]
              ELSE PostUserMessage(r, Call("request", s, value))

\* handleSubmit(value) on render s, up to its first await
handleSubmit(r, s, value) ==
  LET kind == SubmitKind(s, value)
      t == Trim(value)
  IN CASE kind \in {"busy", "overlay", "empty"} -> r
       [] kind = "clear" ->
            [r EXCEPT !.h.messages = <<>>, !.touched = TRUE, !.h.input = <<>>]
       [] kind = "exit" -> [r EXCEPT !.exited = TRUE]
       [] kind = "help" ->
            [r EXCEPT !.h.messages = Append(@, Note("help", <<>>)), !.touched = TRUE,
                      !.h.input = <<>>]
       [] kind = "models" ->
            [r EXCEPT !.h = [showModels(s) EXCEPT !.input = <<>>]]
       [] kind = "modelswitch" ->
            [handleModelSwitch(r, Trim(SubSeq(t, 8, Len(t)))) EXCEPT !.h.input = <<>>]
       [] kind = "sessions" ->
            [r EXCEPT !.cmds = Append(@, [pc |-> "sessions", target |-> <<>>])]
       [] kind = "resume" ->
            [r EXCEPT !.cmds = Append(@, [pc |-> "resume",
                                         target |-> Trim(SubSeq(t, 9, Len(t)))])]
       [] kind = "new" ->
            [startNewSession(r) EXCEPT !.h.input = <<>>]
       [] OTHER ->
            IF s.attachedFiles # <<>>
              THEN [r EXCEPT !.calls = Append(@, Call("read", s, value))]
              ELSE PostUserMessage(r, Call("request", s, value))

(* ------------------------------ key events ----------------------------- *)
(* One action per key: ink-text-input's handler (when focused) and Chat's  *)
(* useInput handler both run on the render the key arrived at; the render  *)
(* with its effects follows.                                               *)

\* a key arrives: the application runs and the user has keys left to press
CanPress == Alive /\ keys < MaxKeys
Pressed == [Base EXCEPT !.keys = keys + 1]

\* Chat's useInput for a printable character: only the resume prompt
\* reads it
ChatChar(r, s, ch) ==
  IF s.pendingSession # <<>> /\ ch = "y" THEN handleResumePrompt(r, s, TRUE)
  ELSE IF s.pendingSession # <<>> /\ ch = "n" THEN handleResumePrompt(r, s, FALSE)
  ELSE r

\* the keys typed: four characters (m and s also narrow the palette and
\* the file list), Y and N at the resume prompt, and as
\* one keystroke each a session id after "/resume " and a model name after
\* "/model "
Chars == {"/", "@", "m", "s", "y", "n", "a", "gpt-4o"}

\* a character is typed: TextInput calls onChange(value + ch)
TypeChar(ch) ==
  /\ CanPress
  /\ ch \in {"y", "n"} => ui.pendingSession # <<>>
  /\ ch = "a" => ui.input = C_resume \o <<Space>>
  /\ ch = "gpt-4o" => ui.input = C_model \o <<Space>>
  /\ ch \notin {"a", "gpt-4o"} => Len(ui.input) < MaxInput
  /\ LET typed == IF Focused(ui) THEN [Pressed EXCEPT !.h.input = Append(ui.input, ch)] ELSE Pressed
     IN Commit(ChatChar(typed, ui, ch))

\* Backspace: TextInput calls onChange with the last character removed
Backspace ==
  /\ CanPress
  /\ ui.input # <<>>
  /\ Focused(ui)
  /\ Commit([Pressed EXCEPT !.h.input = SubSeq(ui.input, 1, Len(ui.input) - 1)])

\* Chat's useInput for Return or Tab
ChatCommit(r, s) ==
  IF s.pendingSession # <<>> THEN r
  ELSE IF s.showFileSelector
    THEN IF s.selectedFileIndex + 1 \in 1..Len(s.fileList)
           THEN LET selectedFile == s.fileList[s.selectedFileIndex + 1]
                    beforeAt == SubSeq(s.input, 1, LastIndexOf(s.input, "@") - 1)
                IN [r EXCEPT !.h.input = beforeAt \o <<selectedFile, Space>>,
                             !.h.attachedFiles = Append(@, selectedFile),
                             !.h.showFileSelector = FALSE]
           ELSE r
  ELSE IF s.showModelSelector THEN handleModelSelect(r, s.selectedModelIndex)
  ELSE IF s.showCommands
    THEN IF s.selectedCommandIndex + 1 \in 1..Len(s.filteredCommands)
           THEN handleCommandSelect(r, s, s.filteredCommands[s.selectedCommandIndex + 1])
           ELSE r
  ELSE r

\* Return: TextInput calls onSubmit(value), then Chat's handler runs
Enter ==
  /\ CanPress
  /\ LET submitted == IF Focused(ui) THEN handleSubmit(Pressed, ui, ui.input) ELSE Pressed
     IN Commit(ChatCommit(submitted, ui))

\* Tab: TextInput ignores it; Chat's handler commits the open picker
Tab ==
  /\ CanPress
  /\ ui.showCommands \/ ui.showModelSelector \/ ui.showFileSelector
  /\ Commit(ChatCommit(Pressed, ui))

\* Escape: closes the innermost picker, or exits
Escape ==
  /\ CanPress
  /\ Commit(IF ui.pendingSession # <<>> THEN Pressed
            ELSE IF ui.showFileSelector THEN [Pressed EXCEPT !.h.showFileSelector = FALSE]
            ELSE IF ui.showModelSelector THEN [Pressed EXCEPT !.h.showModelSelector = FALSE]
            ELSE IF ui.showCommands THEN [Pressed EXCEPT !.h.showCommands = FALSE]
            ELSE [Pressed EXCEPT !.exited = TRUE])

\* Up and Down stopping at the ends of the list
WrapStops(i, d, n) ==
  IF d = -1 THEN (IF i > 0 THEN i - 1 ELSE 0)
  ELSE (IF i < n - 1 THEN i + 1 ELSE n - 1)

\* Up (d = -1) and Down (d = 1) in the open picker
Wrap(i, d, n) ==
  IF d = -1 THEN (IF i > 0 THEN i - 1 ELSE n - 1)
  ELSE (IF i < n - 1 THEN i + 1 ELSE 0)

Arrow(d) ==
  /\ CanPress
  /\ ui.pendingSession = <<>>
  /\ ui.showCommands \/ ui.showModelSelector \/ ui.showFileSelector
  /\ Commit(IF ui.showFileSelector
              THEN [Pressed EXCEPT !.h.selectedFileIndex = Wrap(@, d, Len(ui.fileList))]
            ELSE IF ui.showModelSelector
              THEN [Pressed EXCEPT !.h.selectedModelIndex = Wrap(@, d, Len(AVAILABLE_MODELS))]
            ELSE [Pressed EXCEPT !.h.selectedCommandIndex = Wrap(@, d, Len(ui.filteredCommands))])

\* Ctrl+L also forgetting the title of the session
CtrlLForgetsTitle ==
  /\ CanPress
  /\ Commit([Pressed EXCEPT !.h.messages = <<>>, !.touched = TRUE,
                            !.h.sessionTitle = <<>>, !.tg = FALSE])

\* Ctrl+L: setMessages([])
CtrlL ==
  /\ CanPress
  /\ Commit([Pressed EXCEPT !.h.messages = <<>>, !.touched = TRUE])

(* --------------------------- asynchronous steps ------------------------ *)

Remove(seq, i) == SubSeq(seq, 1, i - 1) \o SubSeq(seq, i + 1, Len(seq))

\* loadConfig: the stored model replaced by the default when unsupported
loadConfig(c) ==
  IF IsModel(c.currentModel) THEN c ELSE [c EXCEPT !.currentModel = DefaultModel]

\* the init effect of Chat
InitEffect ==
  /\ ~ui.isInitialized
  /\ ~exited
  /\ LET c == loadConfig(config)
         session == IF c.lastSessionId # <<>> THEN loadSession(store, c.lastSessionId) ELSE <<>>
         staged == IF session # <<>> /\ Len(session[1].messages) > 0 THEN session ELSE <<>>
     IN Commit([Base EXCEPT !.h.currentModel = c.currentModel,
                            !.h.sessionId = generateSessionId(minted),
                            !.minted = @ + 1,
                            !.h.pendingSession = staged,
                            !.h.isInitialized = TRUE])

\* the labelled blocks handleSubmit appends for the attached files, a
\* file that cannot be read giving a cannot-read marker
RECURSIVE FileBlocks(_, _)
FileBlocks(files, readable) ==
  IF files = <<>> THEN <<>>
  ELSE <<Newline, Newline, (IF readable[1] THEN "FILE" ELSE "UNREADABLE"), Head(files)>>
         \o FileBlocks(Tail(files), Tail(readable))

\* handleSubmit resumes after the readFile awaits of the attached files
CallRead(i) ==
  /\ Alive
  /\ i \in 1..Len(calls)
  /\ calls[i].pc = "read"
  /\ \E readable \in [1..Len(calls[i].files) -> BOOLEAN] :
       LET c == [calls[i] EXCEPT !.content = @ \o FileBlocks(calls[i].files, readable)]
       IN Commit(PostUserMessage([Base EXCEPT !.calls = Remove(calls, i)], c))

\* generateSessionTitle settles (the request, or its fallback: a title
\* either way), and handleSubmit goes on to the completion request
CallTitle(i) ==
  /\ Alive
  /\ i \in 1..Len(calls)
  /\ calls[i].pc = "title"
  /\ Commit([Base EXCEPT !.h.sessionTitle = <<"T">>, !.calls[i].pc = "request"])

\* the finally block of handleSubmit
Finally(r) ==
  [r EXCEPT !.h.isLoading = FALSE, !.h.streamingContent = <<>>, !.h.isThinking = FALSE]

\* the catch block of handleSubmit
Catch(r) ==
  [r EXCEPT !.h.messages = Append(@, Note("error", <<>>)), !.touched = TRUE]

\* openai.chat.completions.create settles: the placeholder is appended,
\* or the request is rejected
CallOpen(i) ==
  /\ Alive
  /\ i \in 1..Len(calls)
  /\ calls[i].pc = "request"
  /\ \/ Commit([Base EXCEPT !.h.messages =
                               Append(@, Msg("assistant", <<>>, "true", calls[i].model)),
                            !.touched = TRUE,
                            !.calls[i].pc = "stream"])
     \/ Commit(Finally(Catch([Base EXCEPT !.calls = Remove(calls, i)])))

\* one chunk of the stream
CallChunk(i) ==
  /\ Alive
  /\ i \in 1..Len(calls)
  /\ calls[i].pc = "stream"
  /\ Len(calls[i].full) < MaxDeltas
  /\ LET full == Append(calls[i].full, "d")
     IN Commit([Base EXCEPT !.h.isThinking = FALSE,
                            !.h.streamingContent = full,
                            !.calls[i].full = full])

\* the end-of-stream updater leaving the message marked as streaming
SettleStillStreaming(messages, c) ==
  LET n == Len(messages)
  IN IF messages[n].role = "assistant"
       THEN [messages EXCEPT ![n].content = c.full, ![n].model = c.model]
       ELSE messages

\* the updater handleSubmit passes to setMessages when the stream ends
Settle(messages, c) ==
  LET n == Len(messages)
  IN IF messages[n].role = "assistant"
       THEN [messages EXCEPT ![n].content = c.full,
                             ![n].isStreaming = "false",
                             ![n].model = c.model]
       ELSE messages

\* the stream ends.  On an empty list the updater reads .role of
\* undefined and throws while React renders: the application is torn down.
CallEnd(i) ==
  /\ Alive
  /\ i \in 1..Len(calls)
  /\ calls[i].pc = "stream"
  /\ IF ui.messages = <<>>
       THEN Commit([Base EXCEPT !.calls = Remove(calls, i), !.exited = TRUE])
       ELSE Commit(Finally([Base EXCEPT !.h.messages = Settle(@, calls[i]),
                                        !.touched = TRUE,
                                        !.calls = Remove(calls, i)]))

\* the stream throws
CallFail(i) ==
  /\ Alive
  /\ i \in 1..Len(calls)
  /\ calls[i].pc = "stream"
  /\ Commit(Finally(Catch([Base EXCEPT !.calls = Remove(calls, i)])))

\* a scanFiles promise resolves
ScanDone(i) ==
  /\ Alive
  /\ i \in 1..Len(scans)
  /\ LET files == scanFiles(scans[i])
     IN Commit([Base EXCEPT !.h.fileList = files,
                            !.h.showFileSelector = (Len(files) > 0),
                            !.h.selectedFileIndex = 0,
                            !.scans = Remove(scans, i)])

\* showSessions resolves, and handleSubmit clears the input
showSessions(r, sessions) ==
  IF sessions = <<>>
    THEN [r EXCEPT !.h.messages = Append(@, Note("no-sessions", <<>>)), !.touched = TRUE]
    ELSE [r EXCEPT !.h.messages = Append(@, Note("sessions", <<>>)), !.touched = TRUE]

\* resumeSession resolves
resumeSession(r, found, target) ==
  IF found # <<>>
    THEN [r EXCEPT !.h.messages = Append(found[1].messages, Note("resumed", found[1].title)),
                   !.touched = TRUE,
                   !.h.currentModel = found[1].model,
                   !.h.sessionId = found[1].id,
                   !.h.sessionTitle = found[1].title,
                   !.cref = found[1].createdAt,
                   !.tg = TRUE]
    ELSE [r EXCEPT !.h.messages = Append(@, Note("not-found", target)), !.touched = TRUE]

CmdDone(i) ==
  /\ Alive
  /\ i \in 1..Len(cmds)
  /\ cmds[i].pc \in {"sessions", "resume"}
  /\ LET r == [Base EXCEPT !.cmds = Remove(cmds, i)]
         orders == Readdir(FilesOf(store))
     IN IF cmds[i].pc = "sessions"
          THEN \E sessions \in {listSessions(store, files) : files \in orders} :
                 Commit([showSessions(r, sessions) EXCEPT !.h.input = <<>>])
          ELSE \E found \in {resolveSession(store, files, cmds[i].target) : files \in orders} :
                 Commit([resumeSession(r, found, cmds[i].target) EXCEPT !.h.input = <<>>])

(* -------------------------- cleanupOldSessions ------------------------- *)

\* what a chain leaves in the record when it ends: a directly invoked
\* cleanup notes the store it scanned and the store it left
Finished(chain, st) ==
  IF chain.kind = "cleanup"
    THEN Last("cleanup", <<>>, <<>>, <<>>, <<>>, <<chain.scanned>>, <<st>>, ~chain.failed)
    ELSE last

\* cleanupOldSessions reads the directory and picks the files to delete
CleanupScan(i) ==
  /\ i \in 1..Len(saves)
  /\ saves[i].pc = "scan"
  /\ \E todo \in {cleanupCandidates(store, files) : files \in Readdir(FilesOf(store))} :
       LET chain == [saves[i] EXCEPT !.pc = "unlink", !.todo = todo, !.scanned = store]
       IN IF todo = <<>>
            THEN /\ saves' = Remove(saves, i)
                 /\ last' = Finished(chain, store)
            ELSE /\ saves' = [saves EXCEPT ![i] = chain]
                 /\ last' = last
  /\ UNCHANGED <<ui, titleGenerated, sessionCreatedAt, store, config, now, minted, calls,
                 cmds, scans, exited, focusProp, keys, disk>>

\* one turn of the unlink loop: the deletion, or the error it swallows
CleanupUnlink(i) ==
  /\ i \in 1..Len(saves)
  /\ saves[i].pc = "unlink"
  /\ \E ok \in Outcomes :
       LET st == IF ok THEN unlink(store, Head(saves[i].todo)) ELSE store
           chain == [saves[i] EXCEPT !.todo = Tail(@), !.failed = @ \/ ~ok]
       IN /\ store' = st
          /\ IF chain.todo = <<>>
               THEN /\ saves' = Remove(saves, i)
                    /\ last' = Finished(chain, st)
               ELSE /\ saves' = [saves EXCEPT ![i] = chain]
                    /\ last' = last
  /\ UNCHANGED <<ui, titleGenerated, sessionCreatedAt, config, now, minted, calls, cmds,
                 scans, exited, focusProp, keys, disk>>

(* ------------------------- writes on a slow disk ----------------------- *)

\* the writeFile of an outstanding saveSession settles, and
\* cleanupOldSessions is called
SaveWrite(i) ==
  /\ i \in 1..Len(saves)
  /\ saves[i].pc = "write"
  /\ \E ok \in Outcomes :
       store' = IF ok THEN saveSession(store, saves[i].session[1]) ELSE store
  /\ saves' = [saves EXCEPT ![i].pc = "scan"]
  /\ UNCHANGED <<ui, titleGenerated, sessionCreatedAt, config, now, minted, calls, cmds,
                 scans, exited, focusProp, keys, disk, last>>

\* updateConfig: loadConfig has settled, and the two fields are set from
\* the closure
ConfigLoad(i) ==
  /\ i \in 1..Len(saves)
  /\ saves[i].pc = "load"
  /\ saves' = [saves EXCEPT
                 ![i].pc = "save",
                 ![i].config = <<[loadConfig(config) EXCEPT
                                    !.currentModel = saves[i].config[1].currentModel,
                                    !.lastSessionId = saves[i].config[1].lastSessionId]>>]
  /\ UNCHANGED <<ui, titleGenerated, sessionCreatedAt, store, config, now, minted, calls,
                 cmds, scans, exited, focusProp, keys, disk, last>>

\* updateConfig: the writeFile of saveConfig settles
ConfigWrite(i) ==
  /\ i \in 1..Len(saves)
  /\ saves[i].pc = "save"
  /\ \E ok \in Outcomes :
       config' = IF ok THEN saves[i].config[1] ELSE config
  /\ saves' = Remove(saves, i)
  /\ UNCHANGED <<ui, titleGenerated, sessionCreatedAt, store, now, minted, calls, cmds,
                 scans, exited, focusProp, keys, disk, last>>

(* --------------------------- the application --------------------------- *)

\* a session as an earlier run saved it
Doc(id, stamp, messages) ==
  [id |-> id, title |-> <<"T">>, createdAt |-> stamp, updatedAt |-> stamp,
   messages |-> messages, model |-> "gpt-4o"]

\* HISTORY_DIR at start: full to the cap, the oldest session first
Store0 ==
  [f \in AllIds |->
     IF \E i \in 1..MAX_HISTORY_SESSIONS : Ids[i] = f
       THEN LET i == CHOOSE i \in 1..MAX_HISTORY_SESSIONS : Ids[i] = f
            IN <<Stringify(Doc(f, i, <<UserMsg(<<"m">>)>>))>>
       ELSE <<>>]

Init ==
  /\ ui = Ui0
  /\ titleGenerated = FALSE
  /\ sessionCreatedAt = 0
  /\ store = Store0
  /\ config \in {[currentModel |-> m, lastSessionId |-> l] :
                   m \in {"gpt-3.5-turbo"}, l \in {<<>>, <<"a">>}}
  /\ now = MAX_HISTORY_SESSIONS
  /\ minted = 0
  /\ calls = <<>>
  /\ cmds = <<>>
  /\ scans = <<>>
  /\ saves = <<>>
  /\ exited = FALSE
  /\ focusProp \in BOOLEAN
  /\ keys = 0
  /\ disk = "healthy"
  /\ last = NoLast

Next ==
  \/ InitEffect
  \/ \E ch \in Chars : TypeChar(ch)
  \/ Backspace
  \/ Enter
  \/ Tab
  \/ Escape
  \/ \E d \in {-1, 1} : Arrow(d)
  \/ CtrlL
  \/ \E i \in 1..MaxCalls : CallRead(i)
  \/ \E i \in 1..MaxCalls : CallTitle(i)
  \/ \E i \in 1..MaxCalls : CallOpen(i)
  \/ \E i \in 1..MaxCalls : CallChunk(i)
  \/ \E i \in 1..MaxCalls : CallEnd(i)
  \/ \E i \in 1..MaxCalls : CallFail(i)
  \/ \E i \in 1..MaxScans : ScanDone(i)
  \/ \E i \in 1..MaxCalls : CmdDone(i)
  \/ \E i \in 1..MaxPending : CleanupScan(i)
  \/ \E i \in 1..MaxPending : CleanupUnlink(i)

Spec == Init /\ [][Next]_vars

(* ------------------------- the store on its own ------------------------ *)
(* The store functions called one at a time on every store within the      *)
(* bounds: files that are missing, files that do not parse, sessions with   *)
(* equal and with different updatedAt, on a disk whose writes and           *)
(* deletions may fail.                                                      *)

StoreIds == {Ids[i] : i \in 1..(MAX_HISTORY_SESSIONS + 2)}

\* a session with a settled exchange: a message without and one with the
\* optional fields
StoreDoc(id, stamp) ==
  Doc(id, stamp, <<UserMsg(<<"m">>), Msg("assistant", <<"d">>, "false", "gpt-4o")>>)

\* what is on disk under an id: nothing (-1), bytes that do not parse (0),
\* or a session updated at k
FileOf(id, k) ==
  IF k = -1 THEN <<>> ELSE IF k = 0 THEN <<Corrupt>> ELSE <<Stringify(StoreDoc(id, k))>>

StoreInit ==
  /\ ui = Ui0
  /\ titleGenerated = FALSE
  /\ sessionCreatedAt = 0
  /\ \E g \in [StoreIds -> -1..MaxStamp] :
       store = [id \in AllIds |-> IF id \in StoreIds THEN FileOf(id, g[id]) ELSE <<>>]
  /\ config = [currentModel |-> DefaultModel, lastSessionId |-> <<>>]
  /\ now = 0
  /\ minted = 0
  /\ calls = <<>>
  /\ cmds = <<>>
  /\ scans = <<>>
  /\ saves = <<>>
  /\ exited = FALSE
  /\ focusProp = FALSE
  /\ keys = 0
  /\ disk = "flaky"
  /\ last = NoLast

StoreFrame ==
  UNCHANGED <<ui, titleGenerated, sessionCreatedAt, config, now, minted, calls, cmds,
              scans, exited, focusProp, keys, disk>>

\* no operation has been applied to the store yet.  The stores of StoreInit
\* are closed under save and unlink, so one operation on each of them is
\* every operation on every store a sequence of them can build.
Fresh == last.op = "none" /\ saves = <<>>

\* saveSession(session), then loadSession(session.id)
OpSave ==
  /\ Fresh
  /\ \E id \in StoreIds, t \in 1..MaxStamp, ok \in Outcomes :
       LET session == StoreDoc(id, t)
           st == IF ok THEN saveSession(store, session) ELSE store
       IN /\ store' = st
          /\ last' = Last("save", <<session>>, id, <<>>, loadSession(st, id), <<store>>, <<st>>, ok)
  /\ UNCHANGED saves
  /\ StoreFrame

\* listSessions()
OpList ==
  /\ Fresh
  /\ \E listed \in {listSessions(store, files) : files \in Readdir(FilesOf(store))} :
       last' = Last("list", <<>>, <<>>, listed, <<>>, <<store>>, <<store>>, TRUE)
  /\ UNCHANGED <<store, saves>>
  /\ StoreFrame

\* the lookup of resumeSession(target)
OpResolve ==
  /\ Fresh
  /\ \E target \in StoreIds \cup {<<>>, <<"c", "c">>} :
       \E got \in {<<listSessions(store, files), resolveSession(store, files, target)>> :
                     files \in Readdir(FilesOf(store))} :
         last' = Last("resolve", <<>>, target, got[1], got[2], <<store>>, <<store>>, TRUE)
  /\ UNCHANGED <<store, saves>>
  /\ StoreFrame

\* cleanupOldSessions() is called
OpCleanup ==
  /\ Fresh
  /\ saves' = <<CleanupChain("cleanup")>>
  /\ UNCHANGED <<store, last>>
  /\ StoreFrame

StoreNext ==
  \/ OpSave
  \/ OpList
  \/ OpResolve
  \/ OpCleanup
  \/ CleanupScan(1)
  \/ CleanupUnlink(1)

StoreSpec == StoreInit /\ [][StoreNext]_vars

(* ----------------------------- store claims ---------------------------- *)

\* the ids whose file holds a session that parses, and its updatedAt
Parsable(st) == {f \in DOMAIN st : loadSession(st, f) # <<>>}
StampOf(st, f) == loadSession(st, f)[1].updatedAt

\* a cleanup of a store above the cap has completed
CleanedAboveCap ==
  /\ last.op = "cleanup"
  /\ Cardinality(Parsable(last.before[1])) > MAX_HISTORY_SESSIONS

\* exactly the cap is left, and nothing retained is older than something
\* deleted
ExactlyCapNewest(before, after) ==
  /\ Cardinality(Parsable(after)) = MAX_HISTORY_SESSIONS
  /\ \A r \in Parsable(after), d \in Parsable(before) \ Parsable(after) :
       StampOf(after, r) >= StampOf(before, d)

C10_ResolvePrefixThenExact ==
  last.op = "resolve" =>
    LET L == last.listed
        hits == {i \in 1..Len(L) : StartsWith(L[i].id, last.target)}
    IN /\ hits # {} => last.result = <<L[Min(hits)]>>
       /\ (hits = {} /\ last.target \in Parsable(last.before[1])) =>
             /\ last.result # <<>>
             /\ last.result[1].id = last.target
             /\ last.result = loadSession(last.before[1], last.target)
       /\ (hits = {} /\ last.target \notin Parsable(last.before[1])) => last.result = <<>>

\* a resolve that fell back to the exact id: the session is stored but is
\* not among those list() returns
C10_Witness ==
  /\ last.op = "resolve"
  /\ last.result # <<>>
  /\ \A i \in 1..Len(last.listed) : ~StartsWith(last.listed[i].id, last.target)

(* --------------------------- conversation claims ----------------------- *)

PickerOpen(s) == s.showCommands \/ s.showModelSelector \/ s.showFileSelector

\* C1: Return pressed while an accepted submission has not yet settled
\* (and no picker is open to take the key) changes neither the message list
\* nor the submissions in flight, and dispatches no command.
C1_SubmitInFlightIsNoOp ==
  [][(Enter /\ calls # <<>> /\ ~PickerOpen(ui))
       => (ui'.messages = ui.messages /\ calls' = calls /\ cmds' = cmds)]_vars

\* two submissions are in flight, and each has appended its user message
C1_Witness ==
  /\ Len(calls) = 2
  /\ \A i \in 1..2 : calls[i].pc = "request"
  /\ Len(SelectSeq(ui.messages, LAMBDA m : m.role = "user")) = 2

\* C2: every message with isStreaming = true is the last of the list (so
\* there is at most one).
C2_StreamingMessageIsLast ==
  \A i \in 1..Len(ui.messages) :
    ui.messages[i].isStreaming = "true" => i = Len(ui.messages)

\* no request is in flight, and a message still marked as streaming is
\* followed by another
C2_Witness ==
  /\ calls = <<>>
  /\ \E i \in 1..Len(ui.messages) :
       ui.messages[i].isStreaming = "true" /\ i < Len(ui.messages)

\* C3: at most one of the command palette, the model picker and the file
\* picker is open.
C3_AtMostOnePicker ==
  /\ ~(ui.showCommands /\ ui.showModelSelector)
  /\ ~(ui.showCommands /\ ui.showFileSelector)
  /\ ~(ui.showModelSelector /\ ui.showFileSelector)

\* the model picker and the file picker are open together
C3_Witness == ui.showModelSelector /\ ui.showFileSelector

\* C4: Return pressed while a picker is open or a resume candidate is
\* staged appends no message (other than the model picker's own commit),
\* dispatches no command and opens no request.
C4_SubmitUnderOverlayIsNoOp ==
  [][(Enter /\ OverlayActive(ui))
       => /\ calls' = calls
          /\ cmds' = cmds
          /\ exited' = exited
          /\ ui'.sessionId = ui.sessionId
          /\ (ui'.messages = ui.messages
                \/ (ui.pendingSession = <<>> /\ ui.showModelSelector))]_vars

\* a submission was accepted, and is in flight, while the resume candidate
\* is still staged
C4_Witness == ui.pendingSession # <<>> /\ calls # <<>>

\* the keys other than Y and N
OtherKey ==
  \/ \E ch \in Chars \ {"y", "n"} : TypeChar(ch)
  \/ Backspace
  \/ Enter
  \/ Tab
  \/ Escape
  \/ \E d \in {-1, 1} : Arrow(d)
  \/ CtrlL

\* C5: while a resume candidate is staged, a key other than Y or N leaves
\* the message list, the input, the session id, the model, the title, the
\* picker flags and the candidate as they were.
C5_OtherKeysDiscarded ==
  [][(OtherKey /\ ui.pendingSession # <<>>)
       => /\ ui'.messages = ui.messages
          /\ ui'.input = ui.input
          /\ ui'.sessionId = ui.sessionId
          /\ ui'.currentModel = ui.currentModel
          /\ ui'.sessionTitle = ui.sessionTitle
          /\ ui'.showCommands = ui.showCommands
          /\ ui'.showModelSelector = ui.showModelSelector
          /\ ui'.showFileSelector = ui.showFileSelector
          /\ ui'.pendingSession = ui.pendingSession]_vars

\* text has been typed into the input while the candidate is staged
C5_Witness == ui.pendingSession # <<>> /\ ui.input # <<>>

\* the record of session id is stored and fewer than the cap of the other
\* stored sessions are as recent as it is
AboveCutoff(st, id) ==
  /\ id \in Parsable(st)
  /\ Cardinality({f \in Parsable(st) \ {id} : StampOf(st, f) >= StampOf(st, id)})
       < MAX_HISTORY_SESSIONS

\* C7: a deletion of the cleanup that follows a save does not remove the
\* record of the active session when that record is above the cutoff.
C7_CleanupSparesActiveSession ==
  [][((\E i \in 1..MaxPending : CleanupUnlink(i)) /\ AboveCutoff(store, ui.sessionId))
       => ui.sessionId \in Parsable(store')]_vars

\* the active session has been saved (its messages are on screen) and its
\* record is gone while a cleanup started before that save is finishing
C7_Witness ==
  /\ ui.sessionId \notin Parsable(store)
  /\ ui.sessionId = <<"a">>
  /\ ui.messages # <<>>
  /\ Cardinality(Parsable(store)) = MAX_HISTORY_SESSIONS

(* ---------------------- the conversation engine ----------------------- *)
(* The commands typed in full (text pasted into the input arrives as one   *)
(* key event), regenerate, and the requests of a submission, from a store  *)
(* that holds a session with messages, a session without, and a file that  *)
(* does not parse.                                                         *)

\* the last index below or at `upto` whose message has the role, 0 if none
LastOfRole(messages, role, upto) ==
  LET idx == {i \in 1..upto : messages[i].role = role}
  IN IF idx = {} THEN 0 ELSE Max(idx)

\* regenerateLastResponse keeping the assistant message it regenerates
regenerateKeepingAssistant(r, s) ==
  LET lastAssistant == LastOfRole(s.messages, "assistant", Len(s.messages))
      lastUser == IF lastAssistant = 0 THEN 0
                  ELSE LastOfRole(s.messages, "user", lastAssistant - 1)
  IN IF lastAssistant = 0 \/ lastUser = 0 THEN r
     ELSE [r EXCEPT !.h.messages = SubSeq(s.messages, 1, lastAssistant),
                    !.touched = TRUE,
                    !.h.input = s.messages[lastUser].content,
                    !.cmds = Append(@, [pc |-> "regen",
                                        target |-> s.messages[lastUser].content,
                                        s |-> s])]

\* regenerateLastResponse on render s (messagesRef.current is the list of
\* that render); the resubmission is a timer holding the handleSubmit of s
regenerateLastResponse(r, s) ==
  LET lastAssistant == LastOfRole(s.messages, "assistant", Len(s.messages))
      lastUser == IF lastAssistant = 0 THEN 0
                  ELSE LastOfRole(s.messages, "user", lastAssistant - 1)
  IN IF lastAssistant = 0 \/ lastUser = 0 THEN r
     ELSE [r EXCEPT !.h.messages = SubSeq(s.messages, 1, lastAssistant - 1),
                    !.touched = TRUE,
                    !.h.input = s.messages[lastUser].content,
                    !.cmds = Append(@, [pc |-> "regen",
                                        target |-> s.messages[lastUser].content,
                                        s |-> s])]

\* Ctrl+R
CtrlR ==
  /\ CanPress
  /\ Len(cmds) < MaxCalls
  /\ Commit(regenerateLastResponse(Pressed, ui))

\* the timer of regenerateLastResponse fires: handleSubmit of the render
\* Ctrl+R was pressed on
RegenFire(i) ==
  /\ Alive
  /\ i \in 1..Len(cmds)
  /\ cmds[i].pc = "regen"
  /\ Commit(handleSubmit([Base EXCEPT !.cmds = Remove(cmds, i)], cmds[i].s, cmds[i].target))

\* the texts pasted: a message, and commands with their argument
Pastes ==
  {<<"m">>, C_new \o <<Space>>, C_clear \o <<Space>>,
   C_resume \o <<Space, "a">>, C_resume \o <<Space, "c">>,
   C_model \o <<Space, "gpt-4o">>, C_model \o <<Space, "x">>}

\* text is pasted: TextInput calls onChange(value + text); Chat's useInput
\* reads a single y or n only
Paste(text) ==
  /\ CanPress
  /\ Focused(ui)
  /\ Len(ui.input) < MaxInput
  /\ Commit([Pressed EXCEPT !.h.input = ui.input \o text])

\* HISTORY_DIR at start: a with a message, b without messages, c not JSON
EngineStore ==
  [Store0 EXCEPT ![<<"b">>] = <<Stringify(Doc(<<"b">>, MAX_HISTORY_SESSIONS, <<>>))>>,
                 ![<<"c">>] = <<Corrupt>>]

EngineInit ==
  /\ ui = Ui0
  /\ titleGenerated = FALSE
  /\ sessionCreatedAt = 0
  /\ store = EngineStore
  /\ config \in {[currentModel |-> "gpt-4o", lastSessionId |-> l] :
                   l \in {<<>>, <<"a">>, <<"b">>, <<"c">>, <<"b", "c">>}}
  /\ now = MAX_HISTORY_SESSIONS
  /\ minted = 0
  /\ calls = <<>>
  /\ cmds = <<>>
  /\ scans = <<>>
  /\ saves = <<>>
  /\ exited = FALSE
  /\ focusProp \in BOOLEAN
  /\ keys = 0
  /\ disk = "healthy"
  /\ last = NoLast

EngineNext ==
  \/ InitEffect
  \/ \E text \in Pastes : Paste(text)
  \/ \E ch \in {"y", "n"} : TypeChar(ch)
  \/ Enter
  \/ CtrlL
  \/ CtrlR
  \/ \E i \in 1..MaxCalls : RegenFire(i)
  \/ \E i \in 1..MaxCalls : CallTitle(i)
  \/ \E i \in 1..MaxCalls : CallOpen(i)
  \/ \E i \in 1..MaxCalls : CallChunk(i)
  \/ \E i \in 1..MaxCalls : CallEnd(i)
  \/ \E i \in 1..MaxCalls : CallFail(i)
  \/ \E i \in 1..MaxCalls : CmdDone(i)
  \/ \E i \in 1..MaxPending : CleanupScan(i)
  \/ \E i \in 1..MaxPending : CleanupUnlink(i)

EngineSpec == EngineInit /\ [][EngineNext]_vars

(* ------------------------------ engine claims -------------------------- *)

\* the session the init effect stages: the one Config names, when it loads
\* and has a message
Candidate ==
  LET l == loadConfig(config).lastSessionId
      s == IF l = <<>> THEN <<>> ELSE loadSession(store, l)
  IN IF s # <<>> /\ Len(s[1].messages) > 0 THEN s ELSE <<>>

\* C11: the init effect leaves a freshly generated session id and an empty
\* message list, and stages the session Config names exactly when it loads
\* and has a message; a staged candidate becomes the active session only by
\* the key Y.
C11_InitStagesAndWaitsForY ==
  [][/\ InitEffect =>
          /\ ui'.sessionId # <<>>
          /\ ui'.sessionId \notin FilesOf(store)
          /\ ui'.sessionId # config.lastSessionId
          /\ ui'.messages = <<>>
          /\ ui'.pendingSession = Candidate
     /\ (/\ ui.pendingSession # <<>>
         /\ ui.sessionId # ui.pendingSession[1].id
         /\ ui'.sessionId = ui.pendingSession[1].id) => TypeChar("y")]_vars

\* the candidate is the active session while it is still staged
C11_Witness ==
  /\ ui.pendingSession # <<>>
  /\ ui.sessionId = ui.pendingSession[1].id


\* the name a "/model <name>" submission passes to handleModelSwitch
ModelArg(value) == Trim(SubSeq(Trim(value), Len(C_model) + 2, Len(Trim(value))))

\* Return submits "/model <name>" with a name that is not supported
UnknownModelSubmit ==
  /\ Enter
  /\ Focused(ui)
  /\ SubmitKind(ui, ui.input) = "modelswitch"
  /\ ~(Len(ModelArg(ui.input)) = 1 /\ IsModel(ModelArg(ui.input)[1]))

\* C12: submitting "/model <name>" with an unsupported name appends exactly
\* one assistant message (the one that lists the supported models) after the
\* earlier messages, leaves currentModel and the session id unchanged, and
\* opens no request.
C12_UnknownModelReported ==
  [][UnknownModelSubmit =>
       /\ ui'.messages = Append(ui.messages, Note("unknown-model", ModelArg(ui.input)))
       /\ ui'.currentModel = ui.currentModel
       /\ ui'.sessionId = ui.sessionId
       /\ calls' = calls
       /\ cmds' = cmds]_vars

\* the report of an unsupported name is the last message
C12_Witness ==
  /\ ui.messages # <<>>
  /\ ui.messages[Len(ui.messages)] = Note("unknown-model", <<"x">>)
  /\ ui.currentModel = "gpt-4o"


\* C13: N pressed while a resume candidate is staged clears the candidate
\* and makes a newly minted id the active session id (not the candidate's,
\* not the previous one, not one on disk); the message list, the model and
\* the title are unchanged.
C13_DeclineMintsNewSession ==
  [][(TypeChar("n") /\ ui.pendingSession # <<>>) =>
       /\ ui'.pendingSession = <<>>
       /\ ui'.sessionId # <<>>
       /\ ui'.sessionId # ui.pendingSession[1].id
       /\ ui'.sessionId # ui.sessionId
       /\ ui'.sessionId \notin FilesOf(store)
       /\ ui'.messages = ui.messages
       /\ ui'.currentModel = ui.currentModel
       /\ ui'.sessionTitle = ui.sessionTitle]_vars

\* N was the only key pressed: the candidate is gone and a second id is
\* the active one
C13_Witness ==
  /\ keys = 1
  /\ minted = 2
  /\ ui.pendingSession = <<>>
  /\ ui.sessionId = generateSessionId(1)
  /\ config.lastSessionId = ui.sessionId


\* the active session is as the stored session s: id, title, model, the
\* messages (followed by the resume announcement) and createdAt, and the
\* save the resume starts has written s.createdAt under s.id
ResumedAs(s) ==
  /\ ui'.sessionId = s.id
  /\ ui'.sessionTitle = s.title
  /\ ui'.currentModel = s.model
  /\ ui'.messages = Append(s.messages, Note("resumed", s.title))
  /\ sessionCreatedAt' = s.createdAt
  /\ loadSession(store', s.id) # <<>>
  /\ loadSession(store', s.id)[1].createdAt = s.createdAt

\* "/resume <idOrPrefix>" completes with a hit on the stored session s
ResumeCommandHit(s) ==
  \E i \in 1..MaxCalls :
    /\ CmdDone(i)
    /\ cmds[i].pc = "resume"
    /\ \E files \in Readdir(FilesOf(store)) : resolveSession(store, files, cmds[i].target) = <<s>>
    /\ ui'.sessionId = s.id

\* C14: after a resume hit, by "/resume" or by Y at the resume prompt, the
\* active session's id, title, model, messages and createdAt are those of
\* the stored session, and the next save is written under the stored id
\* with the stored createdAt.
C14_ResumeAdoptsStoredSession ==
  [][/\ \A id \in FilesOf(store) :
          loadSession(store, id) # <<>> /\ ResumeCommandHit(loadSession(store, id)[1])
            => ResumedAs(loadSession(store, id)[1])
     /\ (TypeChar("y") /\ ui.pendingSession # <<>>) => ResumedAs(ui.pendingSession[1])]_vars

\* a session was resumed and its stored record no longer carries the
\* createdAt it was stored with
C14_Witness ==
  /\ ui.sessionId = <<"a">>
  /\ titleGenerated
  /\ loadSession(store, <<"a">>) # <<>>
  /\ loadSession(store, <<"a">>)[1].createdAt # Parse(Store0[<<"a">>][1]).createdAt


\* the messages of the completion request of call c: the list of the
\* render it was submitted on, as role and content, and the new user
\* message
RequestMessages(c) ==
  [i \in 1..Len(c.msgs) |-> [role |-> c.msgs[i].role, content |-> c.msgs[i].content]]
    \o <<[role |-> "user", content |-> c.content]>>

\* "/resume <idOrPrefix>" completes and no stored session was found
ResumeCommandMiss(i) ==
  /\ CmdDone(i)
  /\ cmds[i].pc = "resume"
  /\ \A files \in Readdir(FilesOf(store)) : resolveSession(store, files, cmds[i].target) = <<>>

\* the announcement of a failed resume, as a request carries it
IsNotFound(m) == m.role = "assistant" /\ m.content # <<>> /\ Head(m.content) = "not-found"

\* C15: a "/resume" that finds no session appends exactly one assistant
\* announcement and leaves session id, title, model and the earlier messages
\* unchanged; no request carries that announcement to the provider.
C15_ResumeMissReported ==
  [][/\ \A i \in 1..MaxCalls :
          ResumeCommandMiss(i) =>
            /\ ui'.messages = Append(ui.messages, Note("not-found", cmds[i].target))
            /\ ui'.sessionId = ui.sessionId
            /\ ui'.sessionTitle = ui.sessionTitle
            /\ ui'.currentModel = ui.currentModel
            /\ calls' = calls
     /\ \A k \in 1..Len(calls') :
          \A j \in 1..Len(RequestMessages(calls'[k])) :
            ~IsNotFound(RequestMessages(calls'[k])[j])]_vars

\* a submission in flight whose request carries the announcement
C15_Witness ==
  \E k \in 1..Len(calls) :
    /\ calls[k].pc = "request"
    /\ \E j \in 1..Len(RequestMessages(calls[k])) : IsNotFound(RequestMessages(calls[k])[j])


\* C16: every save under a session id writes the createdAt the record of
\* that id already carries.
C16_CreatedAtFixed ==
  [][\A id \in FilesOf(store) :
       (loadSession(store, id) # <<>> /\ loadSession(store', id) # <<>>)
         => loadSession(store', id)[1].createdAt = loadSession(store, id)[1].createdAt]_vars

\* the session created at startup was saved before its title arrived and
\* again with it, and its record's createdAt is the time of the last save
C16_Witness ==
  LET got == loadSession(store, generateSessionId(0))
  IN /\ got # <<>>
     /\ got[1].title = <<"T">>
     /\ got[1].createdAt = got[1].updatedAt


\* Return submits a plain text, without attachments, from an empty message
\* list with no submission in flight
FirstSubmit ==
  /\ Enter
  /\ Focused(ui)
  /\ SubmitKind(ui, ui.input) = "message"
  /\ ui.attachedFiles = <<>>
  /\ ui.messages = <<>>
  /\ calls = <<>>

\* the stream of the only submission in flight ends, the list holding what
\* that submission put there: its user message and its placeholder
FirstStreamEnds ==
  /\ CallEnd(1)
  /\ Len(calls) = 1
  /\ calls[1].msgs = <<>>
  /\ ui.messages = <<UserMsg(calls[1].content), Msg("assistant", <<>>, "true", calls[1].model)>>

\* the list a completed first exchange ends with: the user message, and
\* the assistant message with the deltas concatenated, settled, of model m
Exchange(c) ==
  <<UserMsg(c.content), Msg("assistant", c.full, "false", c.model)>>

HasUserMessage(messages) == \E i \in 1..Len(messages) : messages[i].role = "user"

\* how many submissions wait for their title request
TitleRequests(cs) == Cardinality({k \in 1..Len(cs) : cs[k].pc = "title"})

\* a submission appends its user message to a list that holds no user
\* message, no title having been generated for the session
PostsFirstUserMessage ==
  /\ Len(calls') = Len(calls) + 1
  /\ ui'.messages # <<>>
  /\ ui'.messages = Append(ui.messages, ui'.messages[Len(ui'.messages)])
  /\ ui'.messages[Len(ui'.messages)].role = "user"
  /\ ~HasUserMessage(ui.messages)
  /\ ~titleGenerated

\* C18: the submission that appends the first user message of the active
\* session issues a title request; a title request is issued only while
\* none was generated for the session, and that is forgotten only when a
\* new session id replaces the active one.
C18_TitleForFirstUserMessage ==
  [][/\ PostsFirstUserMessage => TitleRequests(calls') = TitleRequests(calls) + 1
     /\ TitleRequests(calls') > TitleRequests(calls) => (~titleGenerated /\ titleGenerated')
     /\ (titleGenerated /\ ~titleGenerated') => ui'.sessionId # ui.sessionId]_vars

\* the first user message of a session started with /new is in the list,
\* its completion request is being opened, and no title was requested
C18_Witness ==
  /\ Len(ui.messages) = 2
  /\ ui.messages[1] = Note("new-session", <<>>)
  /\ ui.messages[2].role = "user"
  /\ Len(calls) = 1
  /\ calls[1].pc = "request"
  /\ ui.sessionTitle = <<>>
  /\ ~titleGenerated


\* C19: the title request does not hold a submission back: no submission
\* is suspended on its title request with its completion request not yet
\* opened.
C19_TitleDoesNotBlock ==
  \A k \in 1..Len(calls) : calls[k].pc # "title"

\* the user message is in the list and the submission waits for the title
\* before it opens its completion request
C19_Witness ==
  /\ Len(calls) = 1
  /\ calls[1].pc = "title"
  /\ ui.isLoading
  /\ ui.messages = <<UserMsg(calls[1].content)>>
  /\ ui.sessionTitle = <<>>


\* the positions regenerate looks for in the list ms: the last assistant
\* message, and the nearest user message before it (0 when missing)
RegenAssistant(ms) ==
  IF \E i \in 1..Len(ms) : ms[i].role = "assistant"
    THEN CHOOSE i \in 1..Len(ms) :
           /\ ms[i].role = "assistant"
           /\ \A j \in (i + 1)..Len(ms) : ms[j].role # "assistant"
    ELSE 0

RegenUser(ms) ==
  IF \E i \in 1..(RegenAssistant(ms) - 1) : ms[i].role = "user"
    THEN CHOOSE i \in 1..(RegenAssistant(ms) - 1) :
           /\ ms[i].role = "user"
           /\ \A j \in (i + 1)..(RegenAssistant(ms) - 1) : ms[j].role # "user"
    ELSE 0

\* C20: regenerate with no assistant message, or no user message before the
\* last one, changes nothing and submits nothing; otherwise the list becomes
\* the prefix strictly before that assistant message and the user message's
\* content is resubmitted: when the resubmission runs it is a submission of
\* that content, appending it as a new user message with a request of its
\* own unless a submission was in flight or a picker open when regenerate
\* was invoked.
C20_RegenerateTruncatesAndResubmits ==
  [][/\ CtrlR =>
          IF RegenAssistant(ui.messages) = 0 \/ RegenUser(ui.messages) = 0
            THEN /\ ui'.messages = ui.messages
                 /\ ui'.input = ui.input
                 /\ cmds' = cmds
                 /\ calls' = calls
            ELSE /\ ui'.messages = SubSeq(ui.messages, 1, RegenAssistant(ui.messages) - 1)
                 /\ Len(cmds') = Len(cmds) + 1
                 /\ cmds'[Len(cmds')].pc = "regen"
                 /\ cmds'[Len(cmds')].target = ui.messages[RegenUser(ui.messages)].content
                 /\ calls' = calls
     /\ \A i \in 1..MaxCalls :
          RegenFire(i) =>
            /\ cmds' = Remove(cmds, i)
            /\ IF SubmitKind(cmds[i].s, cmds[i].target) = "message"
                 THEN /\ ui'.messages = Append(ui.messages, UserMsg(Trim(cmds[i].target)))
                      /\ Len(calls') = Len(calls) + 1
                      /\ calls'[Len(calls')].content = Trim(cmds[i].target)
                 ELSE /\ SubmitKind(cmds[i].s, cmds[i].target) \in {"busy", "overlay"}
                      /\ ui'.messages = ui.messages
                      /\ calls' = calls]_vars

\* a completed exchange was regenerated: the answer is dropped, the user
\* message is in the list again as a new submission, whose request is
\* being opened
C20_Witness ==
  /\ cmds = <<>>
  /\ Len(calls) = 1
  /\ calls[1].pc = "request"
  /\ Len(calls[1].msgs) = 2
  /\ calls[1].msgs[2].role = "assistant"
  /\ ui.messages = <<UserMsg(calls[1].content), UserMsg(calls[1].content)>>



\* what regenerate leaves of the list ms: the messages strictly before its
\* last assistant message
Truncation(ms) == SubSeq(ms, 1, RegenAssistant(ms) - 1)

\* the stream of a resubmission ends: call i was made by regenerate on the
\* list calls[i].msgs, and the list holds what regenerate left of it, the
\* resubmitted user message and the placeholder
RegeneratedStreamEnds(i) ==
  /\ CallEnd(i)
  /\ RegenAssistant(calls[i].msgs) # 0
  /\ RegenUser(calls[i].msgs) # 0
  /\ calls[i].content = calls[i].msgs[RegenUser(calls[i].msgs)].content
  /\ ui.messages = Truncation(calls[i].msgs)
                     \o <<UserMsg(calls[i].content),
                          Msg("assistant", <<>>, "true", calls[i].model)>>

\* C21: once the stream of a regeneration has settled, regenerating again
\* truncates the list to the same point as the first regeneration did: the
\* list as it was before the regenerated assistant reply existed.
C21_RegenerateTwiceSameTruncation ==
  [][\A i \in 1..MaxCalls :
       RegeneratedStreamEnds(i) =>
         /\ Truncation(ui'.messages) = Truncation(calls[i].msgs)
         /\ (regenerateLastResponse(Base, ui).h.messages)' = Truncation(calls[i].msgs)]_vars

\* the first exchange of the startup session was regenerated, the new
\* stream settled, and Ctrl+R was pressed again: the list is cut after the
\* question and its resubmitted copy
C21_Witness ==
  /\ ui.sessionId = generateSessionId(0)
  /\ ui.messages = <<UserMsg(<<"m">>), UserMsg(<<"m">>)>>
  /\ \E i \in 1..Len(cmds) :
       /\ cmds[i].pc = "regen"
       /\ Len(cmds[i].s.messages) = 3
       /\ SubSeq(cmds[i].s.messages, 1, 2) = ui.messages
       /\ cmds[i].s.messages[3].role = "assistant"
       /\ cmds[i].s.messages[3].isStreaming = "false"


\* a message list as a request carries it: role and content
AsRequest(ms) == [i \in 1..Len(ms) |-> [role |-> ms[i].role, content |-> ms[i].content]]

\* the calls whose completion request is made in this step: those that
\* wait for the provider now and did not before
RequestsMade ==
  {k \in 1..Len(calls') :
     /\ calls'[k].pc = "request"
     /\ \A j \in 1..Len(calls) : calls[j] # calls'[k]}

\* C22: a completion request, whether started by a submission or by
\* regenerate, carries exactly the message list as it stands when the
\* request is made, the new user message being its last.
C22_RequestCarriesCurrentList ==
  [][\A k \in RequestsMade : RequestMessages(calls'[k]) = AsRequest(ui'.messages)]_vars

\* a request is being opened that carries a settled assistant reply which
\* regenerate has removed from the list
C22_Witness ==
  /\ \A i \in 1..Len(ui.messages) : ui.messages[i].role = "user"
  /\ \E k \in 1..Len(calls) :
       /\ calls[k].pc = "request"
       /\ \E j \in 1..Len(calls[k].msgs) :
            /\ calls[k].msgs[j].role = "assistant"
            /\ calls[k].msgs[j].isStreaming = "false"


\* Return submits "/clear"
ClearSubmit ==
  /\ Enter
  /\ Focused(ui)
  /\ SubmitKind(ui, ui.input) = "clear"

\* C23: "/clear" and Ctrl+L empty the message list and leave the session
\* id, the title, the model and the title-generated flag as they were.
C23_ClearKeepsSession ==
  [][(ClearSubmit \/ CtrlL) =>
       /\ ui'.messages = <<>>
       /\ ui'.sessionId = ui.sessionId
       /\ ui'.sessionTitle = ui.sessionTitle
       /\ ui'.currentModel = ui.currentModel
       /\ titleGenerated' = titleGenerated]_vars

\* the list of a titled session was cleared: the title and the flag are
\* still there
C23_Witness ==
  /\ keys = 4
  /\ ui.messages = <<>>
  /\ ui.input = <<>>
  /\ ui.sessionTitle = <<"T">>
  /\ titleGenerated
  /\ calls = <<>>
  /\ cmds = <<>>


\* Return submits "/new"
NewSubmit ==
  /\ Enter
  /\ Focused(ui)
  /\ SubmitKind(ui, ui.input) = "new"

\* C24: after "/new" the message list is empty, the active session id is
\* newly generated (not the previous one, not one on disk), the title is
\* empty and the title-generated flag is cleared.
C24_NewSessionIsEmpty ==
  [][NewSubmit =>
       /\ ui'.messages = <<>>
       /\ ui'.sessionId # <<>>
       /\ ui'.sessionId # ui.sessionId
       /\ ui'.sessionId \notin FilesOf(store)
       /\ ui'.sessionTitle = <<>>
       /\ ~titleGenerated']_vars

\* "/new" was submitted: the new session's list holds the announcement,
\* and the session is stored with it as its only message
C24_Witness ==
  /\ minted = 2
  /\ ui.sessionId = generateSessionId(1)
  /\ ui.messages = <<Note("new-session", <<>>)>>
  /\ ui.sessionTitle = <<>>
  /\ ~titleGenerated
  /\ loadSession(store, ui.sessionId) # <<>>
  /\ loadSession(store, ui.sessionId)[1].messages = ui.messages


\* nothing is in progress: no submission, no command, no save chain
Quiet == Alive /\ calls = <<>> /\ cmds = <<>> /\ saves = <<>>

\* the record stored under the active session id is the session in memory
StoredIsCurrent ==
  LET got == loadSession(store, ui.sessionId)
  IN /\ got # <<>>
     /\ got[1].messages = ui.messages
     /\ got[1].title = Snapshot(ui, sessionCreatedAt, now).title
     /\ got[1].model = ui.currentModel

\* C25: once the list has been changed and every save and cleanup started
\* for it has finished, with nothing else in progress, the record stored
\* under the active session id holds the messages, the title and the model
\* of the session in memory.
C25_StoredEqualsMemory ==
  (Quiet /\ (ui.messages # <<>> \/ ui.sessionId \in FilesOf(store))) => StoredIsCurrent

\* the list was cleared and nothing is in progress: the record of the
\* active session still holds the messages that were cleared
C25_Witness ==
  /\ Quiet
  /\ ui.messages = <<>>
  /\ loadSession(store, ui.sessionId) # <<>>
  /\ loadSession(store, ui.sessionId)[1].messages # <<>>


(* --------------------------- persistence ------------------------------- *)
(* The session and the model are changed while the writes of earlier        *)
(* changes are still outstanding: a disk on which writeFile takes its time. *)

PersistInit ==
  /\ ui = Ui0
  /\ titleGenerated = FALSE
  /\ sessionCreatedAt = 0
  /\ store = EngineStore
  /\ config \in {[currentModel |-> "gpt-3.5-turbo", lastSessionId |-> l] :
                   l \in {<<>>, <<"a">>}}
  /\ now = MAX_HISTORY_SESSIONS
  /\ minted = 0
  /\ calls = <<>>
  /\ cmds = <<>>
  /\ scans = <<>>
  /\ saves = <<>>
  /\ exited = FALSE
  /\ focusProp \in BOOLEAN
  /\ keys = 0
  /\ disk = "slow"
  /\ last = NoLast

PersistNext ==
  \/ InitEffect
  \/ \E text \in {C_new \o <<Space>>, C_model \o <<Space, "gpt-4o">>} : Paste(text)
  \/ \E ch \in {"y", "n"} : TypeChar(ch)
  \/ Enter
  \/ CtrlL
  \/ \E i \in 1..MaxPending : SaveWrite(i)
  \/ \E i \in 1..MaxPending : ConfigLoad(i)
  \/ \E i \in 1..MaxPending : ConfigWrite(i)
  \/ \E i \in 1..MaxPending : CleanupScan(i)
  \/ \E i \in 1..MaxPending : CleanupUnlink(i)

PersistSpec == PersistInit /\ [][PersistNext]_vars


\* an updateConfig is outstanding
ConfigPending == \E i \in 1..Len(saves) : saves[i].kind = "config"

\* C26: once the application is initialised and no config update is
\* outstanding, the persisted Config holds the active model as currentModel
\* and the active session id as lastSessionId, in whatever order the
\* updates that overlapped have settled.
C26_ConfigFollowsSession ==
  (ui.isInitialized /\ ~ConfigPending) =>
    /\ config.currentModel = ui.currentModel
    /\ config.lastSessionId = ui.sessionId

\* every update has settled and Config names the session id of startup,
\* which the resume prompt has meanwhile replaced
C26_Witness ==
  /\ ui.isInitialized
  /\ ~ConfigPending
  /\ config.lastSessionId = generateSessionId(0)
  /\ ui.sessionId # generateSessionId(0)
  /\ ui.pendingSession = <<>>


\* C27: when the stream of a request ends, the list holds the message of
\* that request settled: not streaming, its content the deltas in arrival
\* order, its model the one the request was made with; and the application
\* is still running.
C27_StreamEndSettlesPlaceholder ==
  [][\A i \in 1..MaxCalls :
       CallEnd(i) =>
         /\ ~exited'
         /\ \E j \in 1..Len(ui'.messages) :
              ui'.messages[j] = Msg("assistant", calls[i].full, "false", calls[i].model)]_vars

\* the stream of the first submission of the startup session has ended
\* and nothing is in progress, but the list holds the user message alone:
\* Ctrl+R removed the placeholder while the stream was running
C27_Witness ==
  /\ Quiet
  /\ ~ui.isLoading
  /\ ui.sessionId = generateSessionId(0)
  /\ ui.sessionTitle = <<"T">>
  /\ ui.messages = <<UserMsg(<<"m">>)>>


\* the stream of call i throws while its placeholder is the last message
StreamFails(i) ==
  /\ CallFail(i)
  /\ ui.messages # <<>>
  /\ ui.messages[Len(ui.messages)] = Msg("assistant", <<>>, "true", calls[i].model)

\* C28: when a stream throws, the error description takes the place of the
\* placeholder: the request leaves exactly one assistant message, which
\* carries the error and is not marked as streaming.
C28_ErrorReplacesPlaceholder ==
  [][\A i \in 1..MaxCalls :
       StreamFails(i) =>
         ui'.messages = Append(SubSeq(ui.messages, 1, Len(ui.messages) - 1),
                               Note("error", <<>>))]_vars

\* a stream has failed: nothing is in flight, and the request has left
\* two assistant messages, the placeholder still marked
\* as streaming and the error after it
C28_Witness ==
  /\ calls = <<>>
  /\ ~ui.isLoading
  /\ ui.messages = <<UserMsg(<<"m">>), Msg("assistant", <<>>, "true", "gpt-4o"),
                     Note("error", <<>>)>>


\* the only submission in flight terminates: its stream completes or
\* throws, or its request is rejected
Terminates(i) ==
  /\ Len(calls) = 1
  /\ \/ CallEnd(i)
     \/ CallFail(i)
     \/ (CallOpen(i) /\ calls' = <<>>)

\* C29: when the submission in flight terminates, by completion, by a
\* rejected request or by an error in the stream, the application is still
\* running, nothing is in flight or loading, and a message submitted then
\* is not refused as busy.
C29_UsableAfterTermination ==
  [][\A i \in 1..MaxCalls :
       Terminates(i) =>
         /\ ~exited'
         /\ calls' = <<>>
         /\ ~ui'.isLoading
         /\ ~ui'.isThinking
         /\ SubmitKind(ui', <<"m">>) \in {"message", "overlay"}]_vars

\* the application has ended with a submission still marked as loading:
\* its stream completed on a list that Ctrl+L had emptied
C29_Witness ==
  /\ exited
  /\ ui.isLoading
  /\ ui.messages = <<>>
  /\ calls = <<>>


(* ------------------------------ the window ----------------------------- *)
(* Scrolling through a resumed session of one or two messages, in          *)
(* terminals of different sizes, the list growing and being cleared.       *)

\* Ctrl+U: scroll up by a window
CtrlU ==
  /\ CanPress
  /\ LET maxVisible == maxVisibleMessages(ui, focusProp)
         maxScrollOffset == Greatest(0, Len(ui.messages) - maxVisible)
     IN Commit([Pressed EXCEPT
                  !.h.scrollOffset = Least(ui.scrollOffset + maxVisible, maxScrollOffset)])

\* Ctrl+D: scroll down by a window
CtrlD ==
  /\ CanPress
  /\ Commit([Pressed EXCEPT
               !.h.scrollOffset =
                  Greatest(0, ui.scrollOffset - maxVisibleMessages(ui, focusProp))])

\* the sizes of the terminal: rows and columns, 0 for undefined
Sizes == {<<0, 0>>, <<9, 3>>, <<16, 3>>, <<16, 0>>}

\* a render finds the terminal resized
Resize(size) ==
  /\ Alive
  /\ <<ui.rows, ui.columns>> # size
  /\ Commit([Base EXCEPT !.h.rows = size[1], !.h.columns = size[2]])

\* HISTORY_DIR at start: a with one message, b with a settled exchange
\* whose reply has three lines
ScrollStore ==
  [Store0 EXCEPT
     ![<<"b">>] = <<Stringify(Doc(<<"b">>, MAX_HISTORY_SESSIONS,
                                  <<UserMsg(<<"m">>),
                                    Msg("assistant", <<"d", Newline, "d", "d", Newline, "d">>,
                                        "false", "gpt-4o")>>))>>]

ScrollInit ==
  /\ \E size \in Sizes : ui = [Ui0 EXCEPT !.rows = size[1], !.columns = size[2]]
  /\ titleGenerated = FALSE
  /\ sessionCreatedAt = 0
  /\ store = ScrollStore
  /\ config \in {[currentModel |-> "gpt-4o", lastSessionId |-> l] : l \in {<<"a">>, <<"b">>}}
  /\ now = MAX_HISTORY_SESSIONS
  /\ minted = 0
  /\ calls = <<>>
  /\ cmds = <<>>
  /\ scans = <<>>
  /\ saves = <<>>
  /\ exited = FALSE
  /\ focusProp \in BOOLEAN
  /\ keys = 0
  /\ disk = "healthy"
  /\ last = NoLast

ScrollNext ==
  \/ InitEffect
  \/ TypeChar("y")
  \/ Paste(<<"m">>)
  \/ Enter
  \/ CtrlL
  \/ CtrlU
  \/ CtrlD
  \/ \E size \in Sizes : Resize(size)
  \/ \E i \in 1..MaxCalls : CallOpen(i)
  \/ \E i \in 1..MaxCalls : CallEnd(i)
  \/ \E i \in 1..MaxCalls : CallFail(i)
  \/ \E i \in 1..MaxPending : CleanupScan(i)

ScrollSpec == ScrollInit /\ [][ScrollNext]_vars

\* C30: for every size of the terminal and every scrollOffset from 0 on,
\* the window of the list satisfies startIndex <= endIndex <=
\* messages.length and the number of messages the window may hold is at
\* least MIN_VISIBLE_MESSAGES; scrollOffset is never negative and never
\* beyond messages.length - MIN_VISIBLE_MESSAGES (or 0), so it never points
\* before the start of the list; it is 0 after every step in which the
\* number of messages grows.
C30_Window ==
  /\ \A size \in Sizes, offset \in 0..(MaxMessages + 1) :
       LET s == [ui EXCEPT !.rows = size[1], !.columns = size[2], !.scrollOffset = offset]
       IN /\ 0 <= startIndex(s, focusProp)
          /\ startIndex(s, focusProp) <= endIndex(s)
          /\ endIndex(s) <= Len(s.messages)
          /\ maxVisibleMessages(s, focusProp) >= MIN_VISIBLE_MESSAGES
  /\ 0 <= ui.scrollOffset
  /\ ui.scrollOffset <= Greatest(0, Len(ui.messages) - MIN_VISIBLE_MESSAGES)

C30_ScrollWindow ==
  /\ [] C30_Window
  /\ [][Len(ui'.messages) > Len(ui.messages) => ui'.scrollOffset = 0]_vars

\* the list of three is scrolled to its first message: two newer messages
\* are below the window
C30_Witness ==
  /\ Len(ui.messages) = 3
  /\ ui.scrollOffset = 2
  /\ startIndex(ui, focusProp) = 0
  /\ endIndex(ui) = 1


(* ------------------------------ the commands --------------------------- *)
(* Every command submitted in full, a '/' text that is no command, and a   *)
(* command name submitted from the palette, with a Config and a stored     *)
(* session that name a model outside AVAILABLE_MODELS.                     *)

\* the texts pasted: each command as handleSubmit recognises it (a
\* trailing space keeps the palette closed), "/help" as the palette sees
\* it, and "/x", which no command starts with
CommandPastes ==
  {C_clear \o <<Space>>, C_exit \o <<Space>>, C_quit \o <<Space>>, C_help \o <<Space>>,
   C_models \o <<Space>>, C_model \o <<Space>>, C_sessions \o <<Space>>,
   C_new \o <<Space>>, C_resume \o <<Space, "a">>,
   C_model \o <<Space, "gpt-4o">>, C_model \o <<Space, "x">>,
   C_help, <<"/", "x">>}

\* HISTORY_DIR at start: the session a was saved with the model "x" and
\* the title S
CommandStore ==
  [Store0 EXCEPT
     ![<<"a">>] = <<Stringify([Doc(<<"a">>, 1, <<UserMsg(<<"m">>)>>)
                                EXCEPT !.model = "x", !.title = <<"S">>])>>]

CommandInit ==
  /\ ui = Ui0
  /\ titleGenerated = FALSE
  /\ sessionCreatedAt = 0
  /\ store = CommandStore
  /\ config \in {[currentModel |-> m, lastSessionId |-> l] :
                   m \in {"gpt-3.5-turbo", "x"}, l \in {<<>>, <<"a">>}}
  /\ now = MAX_HISTORY_SESSIONS
  /\ minted = 0
  /\ calls = <<>>
  /\ cmds = <<>>
  /\ scans = <<>>
  /\ saves = <<>>
  /\ exited = FALSE
  /\ focusProp \in BOOLEAN
  /\ keys = 0
  /\ disk = "healthy"
  /\ last = NoLast

CommandNext ==
  \/ InitEffect
  \/ \E text \in CommandPastes : Paste(text)
  \/ \E ch \in {"y", "n"} : TypeChar(ch)
  \/ Enter
  \/ \E i \in 1..MaxCalls : CallTitle(i)
  \/ \E i \in 1..MaxCalls : CallOpen(i)
  \/ \E i \in 1..MaxCalls : CallEnd(i)
  \/ \E i \in 1..MaxCalls : CmdDone(i)
  \/ \E i \in 1..MaxPending : CleanupScan(i)
  \/ \E i \in 1..MaxPending : CleanupUnlink(i)

CommandSpec == CommandInit /\ [][CommandNext]_vars

\* Return runs handleSubmit past its guards, on a text that trims to t and
\* takes the branch `kind`
Dispatches(kind) ==
  /\ Enter
  /\ Focused(ui)
  /\ SubmitKind(ui, ui.input) = kind

UserMessages(ms) == SelectSeq(ms, LAMBDA m : m.role = "user")

\* C31: a submission that handleSubmit accepts and whose trimmed text is a
\* command runs the action of that command (the list cleared, the
\* application exited, the help / model / session announcement appended,
\* the model picker opened, the session listing or resume started, a new
\* session begun), appends no user message and opens no request; any
\* other accepted text that begins with '/' is posted as a user message
\* with that text and a request is opened for it.
C31_CommandsDispatched ==
  [][/\ \A kind \in {"clear", "exit", "help", "models", "modelswitch", "sessions",
                     "resume", "new"} :
          Dispatches(kind) =>
            /\ calls' = calls
            /\ UserMessages(ui'.messages) \in {UserMessages(ui.messages), <<>>}
     /\ Dispatches("clear") => ui'.messages = <<>> /\ ~exited' /\ cmds' = cmds
     /\ Dispatches("exit") => exited' /\ ui'.messages = ui.messages
     /\ Dispatches("help") => ui'.messages = Append(ui.messages, Note("help", <<>>))
     /\ Dispatches("models") =>
          /\ ui'.showModelSelector
          /\ ui'.messages = ui.messages
          /\ ui'.currentModel = ui.currentModel
     /\ Dispatches("modelswitch") =>
          LET name == Trim(SubSeq(Trim(ui.input), 8, Len(Trim(ui.input))))
          IN IF IsModel(name[1])
               THEN /\ ui'.currentModel = name[1]
                    /\ ui'.messages = Append(ui.messages, Note("switched", name))
               ELSE /\ ui'.currentModel = ui.currentModel
                    /\ ui'.messages = Append(ui.messages, Note("unknown-model", name))
     /\ Dispatches("sessions") =>
          /\ cmds' = Append(cmds, [pc |-> "sessions", target |-> <<>>])
          /\ ui'.messages = ui.messages
     /\ Dispatches("resume") =>
          /\ cmds' = Append(cmds, [pc |-> "resume",
                                   target |-> Trim(SubSeq(Trim(ui.input), 9, Len(Trim(ui.input))))])
          /\ ui'.messages = ui.messages
     /\ Dispatches("new") =>
          /\ ui'.sessionId # ui.sessionId
          /\ ui'.sessionTitle = <<>>
          /\ ui'.messages = <<Note("new-session", <<>>)>>
     /\ (Dispatches("message") /\ Head(Trim(ui.input)) = "/") =>
          /\ ui.attachedFiles = <<>> =>
               ui'.messages = Append(ui.messages, UserMsg(Trim(ui.input)))
          /\ Len(calls') = Len(calls) + 1
          /\ calls'[Len(calls')].content = Trim(ui.input)
          /\ cmds' = cmds]_vars

\* "/x" was submitted and its completion request is open, and the request
\* carries the text as a user message
C31_Witness ==
  /\ calls # <<>>
  /\ calls[1].content = <<"/", "x">>
  /\ calls[1].pc = "stream"
  /\ ui.messages # <<>>
  /\ ui.messages[1] = UserMsg(<<"/", "x">>)


\* C32: Ctrl+R pressed while a submission is in flight changes neither
\* the message list nor the submissions in flight, and the resubmission
\* it schedules opens no request.
C32_RegenerateInFlightIsNoOp ==
  [][/\ (CtrlR /\ calls # <<>>) => (ui'.messages = ui.messages /\ calls' = calls)
     /\ \A i \in 1..MaxCalls :
          (RegenFire(i) /\ cmds[i].s.isLoading) => (ui'.messages = ui.messages /\ calls' = calls)
    ]_vars

\* a stream is running without its placeholder: Ctrl+R removed it from
\* the list, left the text of the user message in the input, and the
\* resubmission it scheduled has been dropped
C32_Witness ==
  /\ Len(calls) = 1
  /\ calls[1].pc = "stream"
  /\ ui.isLoading
  /\ cmds = <<>>
  /\ ui.messages = <<UserMsg(<<"m">>)>>
  /\ ui.input = <<"m">>


\* C33: when generateSessionTitle settles for a submission that was posted
\* under another session id than the active one, the title of the active
\* session is left as it is.
C33_TitleForRequestingSession ==
  [][\A i \in 1..MaxCalls :
       (CallTitle(i) /\ calls[i].session # ui.sessionId)
          => ui'.sessionTitle = ui.sessionTitle]_vars

\* the stored session a, saved under the title S, was resumed while the
\* title request of a text typed at the resume prompt was outstanding; it
\* now carries the title generated for that text, in memory and on disk
C33_Witness ==
  /\ ui.sessionId = <<"a">>
  /\ ui.sessionTitle = <<"T">>
  /\ loadSession(store, <<"a">>) # <<>>
  /\ loadSession(store, <<"a">>)[1].title = <<"T">>
  /\ loadSession(CommandStore, <<"a">>)[1].title = <<"S">>


(* ------------------------------ picker claims -------------------------- *)

\* the overlays open in render s, innermost first
OpenOverlays(s) ==
  (IF s.showFileSelector THEN <<"file">> ELSE <<>>)
    \o (IF s.showModelSelector THEN <<"model">> ELSE <<>>)
    \o (IF s.showCommands THEN <<"commands">> ELSE <<>>)

\* C34: Escape with an overlay open closes the innermost one (file picker,
\* then model picker, then command palette), leaves the others as they
\* are, leaves the message list, the input, the model and the session id
\* unchanged and does not exit; with no overlay open and no resume
\* candidate staged it exits.
C34_EscapeClosesInnermost ==
  [][Escape =>
       /\ OpenOverlays(ui) # <<>> =>
            /\ OpenOverlays(ui') = Tail(OpenOverlays(ui))
            /\ ui'.messages = ui.messages
            /\ ui'.input = ui.input
            /\ ui'.currentModel = ui.currentModel
            /\ ui'.sessionId = ui.sessionId
            /\ exited' = exited
       /\ (OpenOverlays(ui) = <<>> /\ ui.pendingSession = <<>>) => exited']_vars

\* the command palette is open over the resume prompt and two keys have
\* been pressed: the second, Escape among them, left it open
C34_Witness ==
  /\ ui.pendingSession # <<>>
  /\ ui.showCommands
  /\ ui.input = <<"/">>
  /\ keys = 2
  /\ ~exited


\* the picker that takes the arrow keys in render s, its selection index
\* and the length of its candidate list
ArrowPicker(s) ==
  IF s.showFileSelector THEN <<s.selectedFileIndex, Len(s.fileList)>>
  ELSE IF s.showModelSelector THEN <<s.selectedModelIndex, Len(AVAILABLE_MODELS)>>
  ELSE <<s.selectedCommandIndex, Len(s.filteredCommands)>>

Inlines(m, path) ==
  \E k \in 2..Len(m.content) :
    m.content[k] = path /\ m.content[k - 1] \in {"FILE", "UNREADABLE"}

\* C36: the user message a submission posts after reading its files
\* carries one block for each path in the attachment list at that moment,
\* in the order of the list (a marker for a file that cannot be read), and
\* leaves the list empty: a path is inlined by the first message posted
\* after it was committed and by no other.
C36_AttachmentsInlinedOnce ==
  [][\A i \in 1..MaxCalls :
       CallRead(i) =>
         /\ \E readable \in [1..Len(ui.attachedFiles) -> BOOLEAN] :
              ui'.messages =
                Append(ui.messages,
                       UserMsg(calls[i].content \o FileBlocks(ui.attachedFiles, readable)))
         /\ ui'.attachedFiles = <<>>]_vars

\* one path was committed in the file picker and two user messages
\* inline it
C36_Witness ==
  /\ Len(ui.messages) = 2
  /\ \A k \in 1..2 : ui.messages[k].role = "user" /\ Inlines(ui.messages[k], "~m")
  /\ ui.attachedFiles = <<>>


(* ------------------------------ window claims -------------------------- *)

\* the estimated rows of the messages from index `from` to index `to`
\* (1-based, inclusive) of render s
RECURSIVE RowsOf(_, _, _)
RowsOf(s, from, to) ==
  IF from > to THEN 0
  ELSE estimateMessageRows(s.messages[from], terminalCols(s)) + RowsOf(s, from + 1, to)

\* C37: in every render in which the window holds more messages than the
\* floor, the estimated rows of the messages in the window sum to at most
\* the rows of the terminal less the reserved ones, and the message before
\* the window, if there is one, would not fit in what is left.
C37_WindowFitsBudget ==
  LET first == startIndex(ui, focusProp)
      last_ == endIndex(ui)
      budget == terminalRows(ui) - RESERVED_CHROME_ROWS
  IN last_ - first > MIN_VISIBLE_MESSAGES =>
       /\ RowsOf(ui, first + 1, last_) <= budget
       /\ first > 0 => RowsOf(ui, first, last_) > budget

\* the Chat.tsx build shows two messages, more than the floor, whose
\* estimated rows exceed the rows left for them
C37_Witness ==
  /\ ~focusProp
  /\ endIndex(ui) - startIndex(ui, focusProp) = 2
  /\ MIN_VISIBLE_MESSAGES < 2
  /\ RowsOf(ui, startIndex(ui, focusProp) + 1, endIndex(ui))
       > terminalRows(ui) - RESERVED_CHROME_ROWS


\* C38: while the file picker is open the input holds a triggering '@'
\* and the candidate list is what scanFiles returns for the text after
\* that '@'.
C38_FilePickerMatchesInput ==
  ui.showFileSelector =>
    /\ FileTrigger(ui.input)
    /\ ui.fileList = scanFiles(AfterAt(ui.input))

\* the file picker is open on the files of a scan that was started for an
\* input since deleted: the input is empty
C38_Witness ==
  /\ ui.showFileSelector
  /\ ui.input = <<>>
  /\ ui.fileList # <<>>
  /\ scans = <<>>


\* C39: when the stream of a submission ends, the message list holds at
\* least one message.
C39_ListNonEmptyAtStreamEnd ==
  [][\A i \in 1..MaxCalls : CallEnd(i) => ui.messages # <<>>]_vars

\* a stream is running over an empty list: the list was cleared after the
\* placeholder had been appended
C39_Witness ==
  /\ ~exited
  /\ ui.messages = <<>>
  /\ \E i \in 1..Len(calls) : calls[i].pc = "stream"


\* C40: the active model is one of AVAILABLE_MODELS in every state, and so
\* is the model of every submission in flight.
C40_ActiveModelSupported ==
  /\ IsModel(ui.currentModel)
  /\ \A i \in 1..Len(calls) : IsModel(calls[i].model)

\* a submission is about to open its completion request with the model
\* "x", which the resumed session was stored with, and Config names it as
\* the current model
C40_Witness ==
  /\ ui.sessionId = <<"a">>
  /\ ui.currentModel = "x"
  /\ ~IsModel("x")
  /\ config.currentModel = "x"
  /\ \E i \in 1..Len(calls) : calls[i].pc = "request" /\ calls[i].model = "x"

=============================================================================
